---- MODULE Spec2Model ----
(***************************************************************************)
(* Model of the reign-backend request handlers and of the PostgreSQL store *)
(* they run against.  The store is the committed tables; every handler     *)
(* that opens a transaction is a process that runs one SQL statement per   *)
(* step under READ COMMITTED (the isolation level of a pg Pool that never  *)
(* sets one): a statement reads the rows committed when it runs, an UPDATE *)
(* of a row another open transaction has written waits for that            *)
(* transaction and then acts on the row as committed, and an INSERT that   *)
(* collides with a unique key waits for an uncommitted holder of the key   *)
(* and raises 23505 against a committed one.                               *)
(***************************************************************************)
EXTENDS Integers, Sequences, FiniteSets, TLC

VARIABLES
    users,                \* table users
    profile_items,        \* table profile_items
    mood_badges,          \* table mood_badges
    connections,          \* table connections
    validation_requests,  \* table validation_requests
    validation_records,   \* table validation_records
    locations,            \* table locations
    user_status,          \* table user_status
    pings,                \* table pings
    now,                  \* the clock: days for the validation workflow, minutes
                          \* where pings and heartbeats are read
    clients,              \* per request handler: the routes its client calls
    pc,                   \* per request handler: the statement it is at
    call,                 \* per request handler: the route and its inputs
    request,              \* per handler: the row /respond loaded
    tx,                   \* per handler: the writes of its open transaction
    out,                  \* the HTTP response the last step sent, if any
    approvals             \* per request id: how many approve calls got 200

db == <<users, profile_items, mood_badges, connections, validation_requests,
        validation_records, locations, user_status, pings>>
vars == <<users, profile_items, mood_badges, connections, validation_requests,
          validation_records, locations, user_status, pings, now, clients, pc, call,
          request, tx, out, approvals>>

----------------------------------------------------------------------------
(* Bounds of the model. *)

MaxTime == 8          \* the clock stops here
MaxReqRows == 3       \* ids available to validation_requests rows
MaxRecRows == 3       \* ids available to validation_records rows
MaxItemRows == 6      \* ids available to profile_items rows
MaxBadgeRows == 3     \* ids available to mood_badges rows
MaxLocRows == 3       \* ids available to locations rows
MaxPingRows == 2      \* ids available to pings rows

Procs == {"p1", "p2"} \* concurrent request handlers

----------------------------------------------------------------------------
(* Input domains. *)

U1 == "u1"
U2 == "u2"
U3 == "u3"                       \* a well-formed id no user has at first
BadId == "bad"                   \* not a UUID
Missing == ""                    \* an absent (falsy) field

UUIDs == {U1, U2, U3}

\* the routers of the validation workflow and of the profiles
ValidationRoutes == {"connect", "request", "respond"}
ProfileRoutes == {"create", "update"}

GoText == <<"G", "o">>
goText == <<"g", "o">>
RustText == <<"R", "u">>

ReqIds == 1..MaxReqRows
RecIds == 1..MaxRecRows

\* validation_requests.expires_at DEFAULT (CURRENT_TIMESTAMP + INTERVAL '7 days'):
\* seven days of the clock
ExpiryDays == 7

\* the days that pass between two requests the model tells apart
TickDays == 4

----------------------------------------------------------------------------
(* Pure helpers. *)

\* isValidUUID: the regular expression accepts exactly the well-formed ids
isValidUUID(uuid) == uuid \in UUIDs

validCategories == {"skills", "education", "experience"}

\* lower-casing of the characters the model uses (ILIKE folds case)
Lower(c) ==
    CASE c = "G" -> "g"
      [] c = "R" -> "r"
      [] c = "S" -> "s"
      [] OTHER -> c

LowerSeq(s) == [i \in 1..Len(s) |-> Lower(s[i])]

\* JSON.stringify(itemData) stored as jsonb and read back as item_data::text
JsonText(d) == <<"{">> \o d.key \o <<":">> \o d.val \o <<"}">>

\* SQL LIKE: % matches any run of characters, _ matches one character
RECURSIVE LikeMatch(_, _)
LikeMatch(text, pat) ==
    IF pat = <<>> THEN text = <<>>
    ELSE IF Head(pat) = "%"
         THEN \E k \in 0..Len(text) :
                  LikeMatch(SubSeq(text, k + 1, Len(text)), Tail(pat))
    ELSE IF text = <<>> THEN FALSE
    ELSE /\ (Head(pat) = "_" \/ Head(pat) = Head(text))
         /\ LikeMatch(Tail(text), Tail(pat))

\* text ILIKE pat
ILike(text, pat) == LikeMatch(LowerSeq(text), LowerSeq(pat))

\* the smallest id of ids that no row of rows carries (uuid_generate_v4)
FreshId(ids, rows) ==
    CHOOSE i \in ids : /\ \A r \in rows : r.id # i
                       /\ \A j \in ids : (\A r \in rows : r.id # j) => i <= j

HasFreshId(ids, rows) == \E i \in ids : \A r \in rows : r.id # i

----------------------------------------------------------------------------
(* Rows, transactions and responses. *)

\* a request body field that holds an array, or is absent
NoList == [given |-> FALSE, list |-> <<>>]

\* profileImageData: the text before the comma, the characters after it and
\* how many of them there are; or absent
NoImage == [given |-> FALSE, prefix |-> "", base64 |-> <<>>, length |-> 0]

NoCall == [op |-> "none", from |-> Missing, to |-> Missing, category |-> Missing,
           item |-> <<>>, requestId |-> 0, response |-> Missing,
           userId |-> Missing, name |-> Missing, email |-> Missing,
           items |-> NoList, moodBadges |-> NoList, image |-> NoImage,
           lat |-> 0, lng |-> 0, is_broadcasting |-> Missing,
           message |-> Missing, mood |-> Missing, value |-> Missing]

\* the writes of an open transaction: rows inserted, rows updated, ids of
\* rows deleted, and the rows a DELETE that waits for a lock saw and the
\* statement that waits
NoTx == [start |-> 0, reqs |-> {}, upd |-> {}, recs |-> {},
         insUsers |-> {}, updUsers |-> {}, insItems |-> {}, delItems |-> {},
         insBadges |-> {}, delBadges |-> {}, targets |-> {}, waits |-> ""]

NoResp == [code |-> 0, msg |-> "", at |-> "", pgcode |-> "", id |-> 0]

\* no response was sent by the last step
Silent == [proc |-> "", call |-> NoCall, resp |-> NoResp]

Response(code, msg, at, pgcode, id) ==
    [code |-> code, msg |-> msg, at |-> at, pgcode |-> pgcode, id |-> id]

\* rows of every open transaction other than p's
OtherReqs(p) == UNION {tx[q].reqs : q \in Procs \ {p}}
OtherUpd(p) == UNION {tx[q].upd : q \in Procs \ {p}}
OtherRecs(p) == UNION {tx[q].recs : q \in Procs \ {p}}
AllTxReqs == UNION {tx[q].reqs : q \in Procs}
AllTxRecs == UNION {tx[q].recs : q \in Procs}

\* CONSTRAINT unique_validation_request UNIQUE (from_user_id, to_user_id, category, specific_item)
SameRequestKey(a, b) ==
    /\ a.from_user_id = b.from_user_id
    /\ a.to_user_id = b.to_user_id
    /\ a.category = b.category
    /\ a.specific_item = b.specific_item

\* CONSTRAINT unique_validation_record UNIQUE (validated_user_id, validator_user_id, category, specific_item)
SameRecordKey(a, b) ==
    /\ a.validated_user_id = b.validated_user_id
    /\ a.validator_user_id = b.validator_user_id
    /\ a.category = b.category
    /\ a.specific_item = b.specific_item

\* CONSTRAINT unique_connection UNIQUE (from_user, to_user)
SameConnectionKey(a, b) == a.from_user = b.from_user /\ a.to_user = b.to_user

----------------------------------------------------------------------------
(* The store after construction: the schema exists, two profiles have been *)
(* created, and the second user's profile may list the skill "Go".         *)

InitUsers == {[id |-> U1, email |-> "a@x.com", name |-> "A"],
              [id |-> U2, email |-> "b@x.com", name |-> ""]}

GoItem == [id |-> 1, user_id |-> U2, item_type |-> "skill",
           item_data |-> [key |-> <<"s">>, val |-> GoText]]

\* an education entry of the second user's profile
GoSchool == [id |-> 2, user_id |-> U2, item_type |-> "education",
             item_data |-> [key |-> <<"d">>, val |-> GoText]]

Init ==
    /\ users = InitUsers
    /\ profile_items = {GoItem}
    /\ mood_badges = {}
    /\ connections = {}
    /\ validation_requests = {}
    /\ validation_records = {}
    /\ locations = {}
    /\ user_status = {}
    /\ pings = {}
    /\ now = 0
    /\ clients = [p \in Procs |-> ValidationRoutes]
    /\ pc = [p \in Procs |-> "idle"]
    /\ call = [p \in Procs |-> NoCall]
    /\ request = [p \in Procs |-> {}]
    /\ tx = [p \in Procs |-> NoTx]
    /\ out = Silent
    /\ approvals = [i \in ReqIds |-> 0]

\* the handler answers the request c from statement `at`; its transaction,
\* if any, is gone (ROLLBACK, or COMMIT done) and the client is released
Reply(p, c, code, msg, at, pgcode, id) ==
    /\ pc' = [pc EXCEPT ![p] = "idle"]
    /\ call' = [call EXCEPT ![p] = NoCall]
    /\ out' = [proc |-> p, call |-> c, resp |-> Response(code, msg, at, pgcode, id)]
    /\ tx' = [tx EXCEPT ![p] = NoTx]
    /\ request' = [request EXCEPT ![p] = {}]

\* the handler moves on to statement `label`
Goto(p, label) ==
    /\ pc' = [pc EXCEPT ![p] = label]
    /\ out' = Silent
    /\ UNCHANGED call

\* a new HTTP request arrives at an idle handler
Accept(p, route) == route \in clients[p] /\ pc[p] = "idle"

\* the request c passed the first statements and the handler goes on to `label`
Enter(p, c, label) ==
    /\ pc' = [pc EXCEPT ![p] = label]
    /\ call' = [call EXCEPT ![p] = c]
    /\ out' = Silent

----------------------------------------------------------------------------
(* POST /connect *)

ConnectCall(f, t) == [NoCall EXCEPT !.op = "connect", !.from = f, !.to = t]

NewConnection(f, t) == [from_user |-> f, to_user |-> t, status |-> "connected"]

\* INSERT INTO connections ... ON CONFLICT (from_user, to_user) DO NOTHING RETURNING *
ConnectInsert(f, t) ==
    IF \E c \in connections : SameConnectionKey(c, NewConnection(f, t))
    THEN {}
    ELSE {NewConnection(f, t)}

\* a handler without the test for self-connections
SelfConnection_Unchecked(f, t) == FALSE

\* Prevent self-connections: fromUser === toUser
SelfConnection(f, t) == f = t

\* the handler runs on the pool, outside a transaction; its first query reads
\* the users table only
Connect(p, f, t) ==
    /\ Accept(p, "connect")
    /\ IF f = Missing \/ t = Missing
       THEN /\ Reply(p, ConnectCall(f, t), 400, "Missing required fields", "connect", "", 0)
            /\ UNCHANGED connections
       ELSE IF ~isValidUUID(f) \/ ~isValidUUID(t)
       THEN /\ Reply(p, ConnectCall(f, t), 400, "Invalid user ID format", "connect", "", 0)
            /\ UNCHANGED connections
       ELSE IF SelfConnection(f, t)
       THEN /\ Reply(p, ConnectCall(f, t), 400, "Invalid connection", "connect", "", 0)
            /\ UNCHANGED connections
       ELSE IF Cardinality({u \in users : u.id \in {f, t}}) # 2
       THEN /\ Reply(p, ConnectCall(f, t), 404, "User not found", "connect", "", 0)
            /\ UNCHANGED connections
       ELSE /\ connections' = connections \cup ConnectInsert(f, t)
            /\ IF ConnectInsert(f, t) # {}
               THEN Reply(p, ConnectCall(f, t), 200, "Connected successfully", "connect", "", 0)
               ELSE Reply(p, ConnectCall(f, t), 200, "Already connected", "connect", "", 0)
    /\ UNCHANGED <<users, profile_items, mood_badges, validation_requests,
                   validation_records, locations, user_status, pings, now, clients,
                   approvals>>

\* GET /connections/:userId : one entry per row that names userId, in the
\* order the store happens to return the rows
RECURSIVE ConnectionRows(_, _)
ConnectionRows(userId, rows) ==
    IF rows = {} THEN <<>>
    ELSE LET c == CHOOSE x \in rows : TRUE
         IN  <<IF c.from_user = userId THEN c.to_user ELSE c.from_user>>
             \o ConnectionRows(userId, rows \ {c})

ListConnections(userId) ==
    ConnectionRows(userId,
        {c \in connections : c.from_user = userId \/ c.to_user = userId})

\* how often peer occurs in a response list
Occurrences(list, peer) == Cardinality({i \in 1..Len(list) : list[i] = peer})

----------------------------------------------------------------------------
(* POST /validation/request *)

RequestCall(f, t, c, s) ==
    [NoCall EXCEPT !.op = "request", !.from = f, !.to = t, !.category = c, !.item = s]

\* the checks made before pool.connect(), then BEGIN and
\* SELECT id FROM users WHERE id IN ($1, $2)
RequestUsers(p, f, t, c, s) ==
    /\ Accept(p, "request")
    /\ IF f = Missing \/ t = Missing \/ c = Missing \/ s = <<>>
       THEN Reply(p, RequestCall(f, t, c, s), 400, "Missing required fields", "req_validate", "", 0)
       ELSE IF ~isValidUUID(f) \/ ~isValidUUID(t)
       THEN Reply(p, RequestCall(f, t, c, s), 400, "Invalid user ID format", "req_validate", "", 0)
       ELSE IF f = t
       THEN Reply(p, RequestCall(f, t, c, s), 400, "Invalid request", "req_validate", "", 0)
       ELSE IF c \notin validCategories
       THEN Reply(p, RequestCall(f, t, c, s), 400, "Invalid category", "req_validate", "", 0)
       ELSE IF Cardinality({u \in users : u.id \in {f, t}}) # 2
       THEN Reply(p, RequestCall(f, t, c, s), 404, "User not found", "req_users", "", 0)
       ELSE /\ Enter(p, RequestCall(f, t, c, s), "req_conn")
            /\ tx' = [tx EXCEPT ![p] = [NoTx EXCEPT !.start = now]]
            /\ UNCHANGED request
    /\ UNCHANGED <<db, now, clients, approvals>>

\* a lookup that takes the absence of a row for a connection
getConnectionStatus_NullConnected(userId1, userId2) ==
    LET rows == {c \in connections :
                    \/ c.from_user = userId1 /\ c.to_user = userId2
                    \/ c.from_user = userId2 /\ c.to_user = userId1}
    IN  IF rows = {} THEN {"connected"} ELSE {c.status : c \in rows}

\* getConnectionStatus: the status of one row between the two users, in
\* either direction (LIMIT 1 without ORDER BY: any of them), or null
getConnectionStatus(userId1, userId2) ==
    LET rows == {c \in connections :
                    \/ c.from_user = userId1 /\ c.to_user = userId2
                    \/ c.from_user = userId2 /\ c.to_user = userId1}
    IN  IF rows = {} THEN {"null"} ELSE {c.status : c \in rows}

RequestConnection(p) ==
    /\ pc[p] = "req_conn"
    /\ \E connectionState \in getConnectionStatus(call[p].from, call[p].to) :
          IF connectionState # "connected"
          THEN Reply(p, call[p], 403, "Users not connected", "req_conn", "", 0)
          ELSE Goto(p, "req_item") /\ UNCHANGED <<tx, request>>
    /\ UNCHANGED <<db, now, clients, approvals>>

\* category === 'skills' ? 'skill' : category
ItemType(category) == IF category = "skills" THEN "skill" ELSE category

\* SELECT 1 FROM profile_items WHERE user_id = $1 AND item_type = $2
\*   AND item_data::text ILIKE '%' || specificItem || '%'
itemCheck(toUserId, category, specificItem) ==
    {i \in profile_items :
        /\ i.user_id = toUserId
        /\ i.item_type = ItemType(category)
        /\ ILike(JsonText(i.item_data), <<"%">> \o specificItem \o <<"%">>)}

RequestItem(p) ==
    /\ pc[p] = "req_item"
    /\ IF itemCheck(call[p].to, call[p].category, call[p].item) = {}
       THEN Reply(p, call[p], 422, "Item not found", "req_item", "", 0)
       ELSE Goto(p, "req_existing") /\ UNCHANGED <<tx, request>>
    /\ UNCHANGED <<db, now, clients, approvals>>

\* the duplicate check without its status filter
existingRequest_AnyStatus(c) ==
    {r \in validation_requests :
        /\ r.from_user_id = c.from
        /\ r.to_user_id = c.to
        /\ r.category = c.category
        /\ r.specific_item = c.item}

\* SELECT id FROM validation_requests WHERE ... AND status = 'pending'
existingRequest(c) ==
    {r \in validation_requests :
        /\ r.from_user_id = c.from
        /\ r.to_user_id = c.to
        /\ r.category = c.category
        /\ r.specific_item = c.item
        /\ r.status = "pending"}

RequestExisting(p) ==
    /\ pc[p] = "req_existing"
    /\ IF existingRequest(call[p]) # {}
       THEN Reply(p, call[p], 409, "Duplicate request", "req_existing", "", 0)
       ELSE Goto(p, "req_validation") /\ UNCHANGED <<tx, request>>
    /\ UNCHANGED <<db, now, clients, approvals>>

\* a handler that never looks for a record of the item
existingValidation_Never(c) == {}

\* SELECT id FROM validation_records WHERE validated_user_id = toUserId
\*   AND validator_user_id = fromUserId AND category = $3 AND specific_item = $4
existingValidation(c) ==
    {v \in validation_records :
        /\ v.validated_user_id = c.to
        /\ v.validator_user_id = c.from
        /\ v.category = c.category
        /\ v.specific_item = c.item}

RequestValidation(p) ==
    /\ pc[p] = "req_validation"
    /\ IF existingValidation(call[p]) # {}
       THEN Reply(p, call[p], 409, "Already validated", "req_validation", "", 0)
       ELSE Goto(p, "req_insert") /\ UNCHANGED <<tx, request>>
    /\ UNCHANGED <<db, now, clients, approvals>>

\* the row INSERT INTO validation_requests builds: the id, status, expires_at
\* and created_at columns take their defaults (CURRENT_TIMESTAMP is the time
\* the transaction started)
NewRequest(p) ==
    [id |-> FreshId(ReqIds, validation_requests \cup AllTxReqs),
     from_user_id |-> call[p].from,
     to_user_id |-> call[p].to,
     category |-> call[p].category,
     specific_item |-> call[p].item,
     status |-> "pending",
     created_at |-> tx[p].start,
     expires_at |-> tx[p].start + ExpiryDays]

\* validation_requests without its unique constraint
RequestKeyTaken_NoConstraint(row) == FALSE

\* unique_validation_request: a committed row holds the key
RequestKeyTaken(row) == \E r \in validation_requests : SameRequestKey(r, row)

\* ... or a row of a transaction still open holds it, and the INSERT waits
RequestKeyHeld(p, row) == \E r \in OtherReqs(p) : SameRequestKey(r, row)

RequestInsert(p) ==
    /\ pc[p] = "req_insert"
    /\ HasFreshId(ReqIds, validation_requests \cup AllTxReqs)
    /\ ~RequestKeyHeld(p, NewRequest(p))
    /\ IF RequestKeyTaken(NewRequest(p))
       THEN \* catch: ROLLBACK; error.code === '23505'
            Reply(p, call[p], 409, "Duplicate request", "req_insert", "23505", 0)
       ELSE /\ Goto(p, "req_commit")
            /\ tx' = [tx EXCEPT ![p].reqs = {NewRequest(p)}]
            /\ UNCHANGED request
    /\ UNCHANGED <<db, now, clients, approvals>>

\* COMMIT; res.status(201)
RequestCommit(p) ==
    /\ pc[p] = "req_commit"
    /\ validation_requests' = validation_requests \cup tx[p].reqs
    /\ \E r \in tx[p].reqs : Reply(p, call[p], 201, "", "req_commit", "", r.id)
    /\ UNCHANGED <<users, profile_items, mood_badges, connections, validation_records,
                   locations, user_status, pings, now, clients, approvals>>

----------------------------------------------------------------------------
(* POST /validation/respond *)

RespondCall(id, response) ==
    [NoCall EXCEPT !.op = "respond", !.requestId = id, !.response = response]

\* request.status !== 'pending'
NotPending(r) == r.status # "pending"

\* a handler that never checks the expiry
Expired_Never(r) == FALSE

\* new Date() > new Date(request.expires_at)
Expired(r) == now > r.expires_at

\* the checks made before pool.connect() (a malformed requestId is -1), then
\* BEGIN; SELECT vr.* FROM validation_requests vr JOIN users ... WHERE vr.id = $1
\* and the status check and the expiry check of the row loaded
RespondSelect(p, id, response) ==
    /\ Accept(p, "respond")
    /\ LET c == RespondCall(id, response)
           rows == {r \in validation_requests :
                       /\ r.id = id
                       /\ \E u1 \in users : u1.id = r.from_user_id
                       /\ \E u2 \in users : u2.id = r.to_user_id}
       IN  IF id = 0 \/ response = Missing
           THEN Reply(p, c, 400, "Missing required fields", "rsp_validate", "", 0)
           ELSE IF id \notin ReqIds
           THEN Reply(p, c, 400, "Invalid requestId", "rsp_validate", "", 0)
           ELSE IF response \notin {"approved", "declined"}
           THEN Reply(p, c, 400, "Invalid response", "rsp_validate", "", 0)
           ELSE IF rows = {}
           THEN Reply(p, c, 404, "Request not found", "rsp_select", "", 0)
           ELSE \E r \in rows :
                   IF NotPending(r)
                   THEN Reply(p, c, 410, "Request no longer pending", "rsp_select", "", 0)
                   ELSE IF Expired(r)
                   THEN Reply(p, c, 410, "Request expired", "rsp_select", "", 0)
                   ELSE /\ Enter(p, c, "rsp_update")
                        /\ request' = [request EXCEPT ![p] = {r}]
                        /\ UNCHANGED tx
    /\ UNCHANGED <<db, now, clients, approvals>>

\* a transaction still open has updated the row: the UPDATE waits for it
RowLocked(p, id) == \E w \in OtherUpd(p) : w.id = id

\* UPDATE validation_requests SET status = $1 WHERE id = $2
RespondUpdate(p) ==
    /\ pc[p] = "rsp_update"
    /\ ~RowLocked(p, call[p].requestId)
    /\ tx' = [tx EXCEPT ![p].upd =
                 {[id |-> r.id, status |-> call[p].response] :
                     r \in {x \in validation_requests : x.id = call[p].requestId}}]
    /\ Goto(p, IF call[p].response = "approved" THEN "rsp_insert" ELSE "rsp_commit")
    /\ UNCHANGED <<db, now, clients, request, approvals>>

\* the row INSERT INTO validation_records builds from the request loaded
NewRecord(p, r) ==
    [id |-> FreshId(RecIds, validation_records \cup AllTxRecs),
     validated_user_id |-> r.to_user_id,
     validator_user_id |-> r.from_user_id,
     category |-> r.category,
     specific_item |-> r.specific_item,
     validation_request_id |-> call[p].requestId]

\* validation_records without its unique constraint
RecordKeyTaken_NoConstraint(row) == FALSE

\* unique_validation_record: a committed row holds the key
RecordKeyTaken(row) == \E v \in validation_records : SameRecordKey(v, row)

\* ... or a row of a transaction still open holds it, and the INSERT waits
RecordKeyHeld(p, row) == \E v \in OtherRecs(p) : SameRecordKey(v, row)

RespondInsert(p) ==
    /\ pc[p] = "rsp_insert"
    /\ HasFreshId(RecIds, validation_records \cup AllTxRecs)
    /\ \E r \in request[p] :
          /\ ~RecordKeyHeld(p, NewRecord(p, r))
          /\ IF RecordKeyTaken(NewRecord(p, r))
             THEN \* catch: ROLLBACK; res.status(500)
                  Reply(p, call[p], 500, "Internal server error", "rsp_insert", "23505", 0)
             ELSE /\ Goto(p, "rsp_commit")
                  /\ tx' = [tx EXCEPT ![p].recs = {NewRecord(p, r)}]
                  /\ UNCHANGED request
    /\ UNCHANGED <<db, now, clients, approvals>>

\* the table once the transaction's UPDATEs are applied
ApplyUpdates(rows, upd) ==
    {IF \E w \in upd : w.id = r.id
     THEN [r EXCEPT !.status = (CHOOSE w \in upd : w.id = r.id).status]
     ELSE r : r \in rows}

\* a decline that withdraws the records of the request it answers
CommitRecords_DeclineWithdraws(c, recs) ==
    IF c.response = "declined"
    THEN {v \in validation_records : v.validation_request_id # c.requestId}
    ELSE validation_records \cup recs

\* validation_records once the transaction of the call c commits: the row
\* it inserted is added, no other statement of the handler names the table
CommitRecords(c, recs) == validation_records \cup recs

\* COMMIT; res.json
RespondCommit(p) ==
    /\ pc[p] = "rsp_commit"
    /\ validation_requests' = ApplyUpdates(validation_requests, tx[p].upd)
    /\ validation_records' = CommitRecords(call[p], tx[p].recs)
    /\ approvals' = IF call[p].response = "approved"
                    THEN [approvals EXCEPT ![call[p].requestId] = @ + 1]
                    ELSE approvals
    /\ Reply(p, call[p], 200, "", "rsp_commit", "", call[p].requestId)
    /\ UNCHANGED <<users, profile_items, mood_badges, connections, locations,
                   user_status, pings, now, clients>>

----------------------------------------------------------------------------
(* GET /validation/nearby *)

\* the connections rows the JOIN pairs with the users row of id for userId:
\* (c.from_user = $1 AND c.to_user = u.id) OR (c.to_user = $1 AND c.from_user = u.id),
\* and c.status = 'connected'
NearbyConnections(userId, id) ==
    {c \in connections :
        /\ c.status = "connected"
        /\ \/ c.from_user = userId /\ c.to_user = id
           \/ c.to_user = userId /\ c.from_user = id}

\* the validation_records rows of LEFT JOIN ... ON u.id = vr.validated_user_id
NearbyRecords(id) == {v \in validation_records : v.validated_user_id = id}

\* GROUP BY u.id, u.name, u.email: one row per user the JOIN keeps, and
\* COUNT(vr.id) counts the joined rows whose record is not NULL, one per
\* pair of a connections row and a validation_records row
ListValidatable(userId) ==
    {[userId |-> u.id,
      validationCount |->
          Cardinality(NearbyConnections(userId, u.id) \X NearbyRecords(u.id))] :
        u \in {x \in users : x.id # userId /\ NearbyConnections(userId, x.id) # {}}}

----------------------------------------------------------------------------
(* GET /validation/summary/:userId *)

\* SELECT COUNT(*) FROM validation_records WHERE validated_user_id = $1
totalValidations(userId) ==
    Cardinality({v \in validation_records : v.validated_user_id = userId})

\* SELECT category, COUNT(*) ... WHERE validated_user_id = $1 GROUP BY category
categoryResult(userId) ==
    {[category |-> c,
      count |-> Cardinality({v \in validation_records :
                    v.validated_user_id = userId /\ v.category = c})] :
        c \in {v.category : v \in {x \in validation_records :
                                      x.validated_user_id = userId}}}

\* a summary that sets no key to 0 before it reads the rows
categoryBreakdown_NoZeroKeys(userId) ==
    [c \in {row.category : row \in categoryResult(userId)} |->
        (CHOOSE row \in categoryResult(userId) : row.category = c).count]

\* every key of validCategories is set to 0, then every row of
\* categoryResult sets the key of its category to its count
categoryBreakdown(userId) ==
    [c \in validCategories \cup {row.category : row \in categoryResult(userId)} |->
        IF \E row \in categoryResult(userId) : row.category = c
        THEN (CHOOSE row \in categoryResult(userId) : row.category = c).count
        ELSE 0]

\* the body of the response of an existing user
Summarize(userId) ==
    [userId |-> userId,
     totalValidations |-> totalValidations(userId),
     categoryBreakdown |-> categoryBreakdown(userId)]

----------------------------------------------------------------------------
(* GET /validation/pending/:userId *)

\* FROM validation_requests vr JOIN users u ON vr.from_user_id = u.id
\* WHERE vr.to_user_id = $1 AND vr.status = 'pending'
\*   AND vr.expires_at > CURRENT_TIMESTAMP
PendingRows(userId) ==
    {r \in validation_requests :
        /\ \E u \in users : u.id = r.from_user_id
        /\ r.to_user_id = userId
        /\ r.status = "pending"
        /\ r.expires_at > now}

\* ORDER BY vr.created_at DESC; rows of one created_at come as the store
\* happens to return them
RECURSIVE OrderByCreatedAt(_)
OrderByCreatedAt(rows) ==
    IF rows = {} THEN <<>>
    ELSE LET r == CHOOSE x \in rows : \A y \in rows : y.created_at <= x.created_at
         IN  <<r>> \o OrderByCreatedAt(rows \ {r})

\* a query that sorts the oldest request first
ListPending_OldestFirst(userId) ==
    [i \in 1..Cardinality(PendingRows(userId)) |->
        OrderByCreatedAt(PendingRows(userId))[Cardinality(PendingRows(userId)) + 1 - i]]

\* the body of the response of an existing user
ListPending(userId) == OrderByCreatedAt(PendingRows(userId))

----------------------------------------------------------------------------
(* The clock. *)

Tick ==
    /\ now + TickDays <= MaxTime
    /\ now' = now + TickDays
    /\ out' = Silent
    /\ UNCHANGED <<db, clients, pc, call, request, tx, approvals>>

----------------------------------------------------------------------------
(* The requests two concurrent clients of the validation workflow send. *)

UserIdInputs == {U1, U2}
CategoryInputs == {"skills"}
ItemInputs == {goText}
RequestIdInputs == ReqIds
ResponseInputs == {"approved", "declined"}

NextValidation ==
    \/ \E p \in Procs, f \in UserIdInputs, t \in UserIdInputs : Connect(p, f, t)
    \/ \E p \in Procs, f \in UserIdInputs, t \in UserIdInputs,
          c \in CategoryInputs, s \in ItemInputs : RequestUsers(p, f, t, c, s)
    \/ \E p \in Procs : RequestConnection(p)
    \/ \E p \in Procs : RequestItem(p)
    \/ \E p \in Procs : RequestExisting(p)
    \/ \E p \in Procs : RequestValidation(p)
    \/ \E p \in Procs : RequestInsert(p)
    \/ \E p \in Procs : RequestCommit(p)
    \/ \E p \in Procs, id \in RequestIdInputs, r \in ResponseInputs :
          RespondSelect(p, id, r)
    \/ \E p \in Procs : RespondUpdate(p)
    \/ \E p \in Procs : RespondInsert(p)
    \/ \E p \in Procs : RespondCommit(p)

Next ==
    \/ NextValidation
    \/ Tick

Spec == Init /\ [][Next]_vars

----------------------------------------------------------------------------
(* One client that sends its requests one after the other, well-formed or  *)
(* not.                                                                    *)

InitSeq ==
    /\ users = InitUsers
    /\ profile_items = {GoItem}
    /\ mood_badges = {}
    /\ connections = {}
    /\ validation_requests = {}
    /\ validation_records = {}
    /\ locations = {}
    /\ user_status = {}
    /\ pings = {}
    /\ now = 0
    /\ clients = [p \in Procs |-> IF p = "p1" THEN ValidationRoutes ELSE {}]
    /\ pc = [p \in Procs |-> "idle"]
    /\ call = [p \in Procs |-> NoCall]
    /\ request = [p \in Procs |-> {}]
    /\ tx = [p \in Procs |-> NoTx]
    /\ out = Silent
    /\ approvals = [i \in ReqIds |-> 0]

SeqUserIdInputs == {U1, U2, U3, BadId}
SeqCategoryInputs == {"skills", "bogus", Missing}
SeqItemInputs == {goText, RustText}
SeqRequestIdInputs == ReqIds \cup {-1, 0}
SeqResponseInputs == {"approved", "declined", "maybe"}

NextSeq ==
    \/ \E p \in Procs, f \in SeqUserIdInputs, t \in SeqUserIdInputs : Connect(p, f, t)
    \/ \E p \in Procs, f \in SeqUserIdInputs, t \in SeqUserIdInputs,
          c \in SeqCategoryInputs, s \in SeqItemInputs : RequestUsers(p, f, t, c, s)
    \/ \E p \in Procs : RequestConnection(p)
    \/ \E p \in Procs : RequestItem(p)
    \/ \E p \in Procs : RequestExisting(p)
    \/ \E p \in Procs : RequestValidation(p)
    \/ \E p \in Procs : RequestInsert(p)
    \/ \E p \in Procs : RequestCommit(p)
    \/ \E p \in Procs, id \in SeqRequestIdInputs, r \in SeqResponseInputs :
          RespondSelect(p, id, r)
    \/ \E p \in Procs : RespondUpdate(p)
    \/ \E p \in Procs : RespondInsert(p)
    \/ \E p \in Procs : RespondCommit(p)
    \/ Tick

SpecSeq == InitSeq /\ [][NextSeq]_vars

----------------------------------------------------------------------------
(* One client whose requests span two categories of the second user's      *)
(* profile.                                                                *)

InitReads ==
    /\ users = InitUsers
    /\ profile_items = {GoItem, GoSchool}
    /\ mood_badges = {}
    /\ connections = {}
    /\ validation_requests = {}
    /\ validation_records = {}
    /\ locations = {}
    /\ user_status = {}
    /\ pings = {}
    /\ now = 0
    /\ clients = [p \in Procs |-> IF p = "p1" THEN ValidationRoutes ELSE {}]
    /\ pc = [p \in Procs |-> "idle"]
    /\ call = [p \in Procs |-> NoCall]
    /\ request = [p \in Procs |-> {}]
    /\ tx = [p \in Procs |-> NoTx]
    /\ out = Silent
    /\ approvals = [i \in ReqIds |-> 0]

ReadsCategoryInputs == {"skills", "education"}

NextReads ==
    \/ \E p \in Procs, f \in UserIdInputs, t \in UserIdInputs : Connect(p, f, t)
    \/ \E p \in Procs, f \in UserIdInputs, t \in UserIdInputs,
          c \in ReadsCategoryInputs, s \in ItemInputs : RequestUsers(p, f, t, c, s)
    \/ \E p \in Procs : RequestConnection(p)
    \/ \E p \in Procs : RequestItem(p)
    \/ \E p \in Procs : RequestExisting(p)
    \/ \E p \in Procs : RequestValidation(p)
    \/ \E p \in Procs : RequestInsert(p)
    \/ \E p \in Procs : RequestCommit(p)
    \/ \E p \in Procs, id \in RequestIdInputs, r \in ResponseInputs :
          RespondSelect(p, id, r)
    \/ \E p \in Procs : RespondUpdate(p)
    \/ \E p \in Procs : RespondInsert(p)
    \/ \E p \in Procs : RespondCommit(p)
    \/ Tick

SpecReads == InitReads /\ [][NextReads]_vars

----------------------------------------------------------------------------
(* Profiles: request bodies and pure helpers. *)

ItemIds == 1..MaxItemRows
BadgeIds == 1..MaxBadgeRows

\* EMAIL_REGEX.test(email), over the addresses the model uses
WellFormedEmails == {"a@x.com", "b@x.com", "c@x.com"}

EMAIL_REGEX(email) == email \in WellFormedEmails

\* the characters base64Regex accepts, of those the model uses
Base64Chars == {"A", "B", "+", "/"}

\* const maxSize = 2 * 1024 * 1024
maxSize == 2097152

\* sizeInBytes = (base64Data.length * 3) / 4 is compared without the division
validateProfileImage(imageData) ==
    IF ~imageData.given
    THEN [valid |-> FALSE, error |-> "Profile image must be a string"]
    ELSE IF imageData.prefix # "data:image/jpeg;base64,"
    THEN [valid |-> FALSE, error |-> "Profile image must be in JPEG format"]
    ELSE IF imageData.length = 0
    THEN [valid |-> FALSE, error |-> "Invalid base64 format"]
    ELSE IF \E i \in 1..Len(imageData.base64) : imageData.base64[i] \notin Base64Chars
    THEN [valid |-> FALSE, error |-> "Invalid base64 encoding"]
    ELSE IF imageData.length * 3 > maxSize * 4
    THEN [valid |-> FALSE, error |-> "Profile image size exceeds 2MB limit"]
    ELSE [valid |-> TRUE, error |-> ""]

\* an absent data / item_data field
NoData == [key |-> <<>>, val |-> <<>>]

\* const itemType = item.type || item.item_type
itemType(item) == IF item.type # Missing THEN item.type ELSE item.item_type

\* const itemData = item.data || item.item_data
itemData(item) == IF item.data # NoData THEN item.data ELSE item.item_data

\* !itemType || !itemData
InvalidItem(item) == itemType(item) = Missing \/ itemData(item) = NoData

\* !badge.mood || !badge.category || !badge.value
InvalidBadge(badge) ==
    badge.mood = Missing \/ badge.category = Missing \/ badge.value = Missing

\* where the loop over the items returns early: the first item it rejects,
\* or one past the end
FirstInvalidItem(list) ==
    IF \E i \in 1..Len(list) : InvalidItem(list[i])
    THEN CHOOSE i \in 1..Len(list) :
             InvalidItem(list[i]) /\ \A j \in 1..(i - 1) : ~InvalidItem(list[j])
    ELSE Len(list) + 1

\* where the loop over the badges returns early
FirstInvalidBadge(list) ==
    IF \E i \in 1..Len(list) : InvalidBadge(list[i])
    THEN CHOOSE i \in 1..Len(list) :
             InvalidBadge(list[i]) /\ \A j \in 1..(i - 1) : ~InvalidBadge(list[j])
    ELSE Len(list) + 1

\* the n smallest ids of ids outside used (uuid_generate_v4, n times)
RECURSIVE FreshIds(_, _, _)
FreshIds(ids, used, n) ==
    IF n = 0 THEN <<>>
    ELSE LET i == CHOOSE x \in ids \ used : \A y \in ids \ used : x <= y
         IN  <<i>> \o FreshIds(ids, used \cup {i}, n - 1)

UsedUserIds ==
    {u.id : u \in users} \cup UNION {{u.id : u \in tx[q].insUsers} : q \in Procs}

UsedItemIds ==
    {r.id : r \in profile_items} \cup UNION {{r.id : r \in tx[q].insItems} : q \in Procs}

UsedBadgeIds ==
    {r.id : r \in mood_badges} \cup UNION {{r.id : r \in tx[q].insBadges} : q \in Procs}

\* INSERT INTO profile_items (user_id, item_type, item_data), once per entry
ItemRows(userId, list) ==
    LET ids == FreshIds(ItemIds, UsedItemIds, Len(list))
    IN  {[id |-> ids[i], user_id |-> userId, item_type |-> itemType(list[i]),
          item_data |-> itemData(list[i])] : i \in 1..Len(list)}

\* saveProfileImage: the row its INSERT adds, JSON.stringify({ imageData })
ImageItem(imageData) ==
    [type |-> "profile_image",
     data |-> [key |-> <<"imageData">>, val |-> imageData.base64],
     item_type |-> Missing, item_data |-> NoData]

\* INSERT INTO mood_badges (user_id, mood, category, value), once per badge
BadgeRows(userId, list) ==
    LET ids == FreshIds(BadgeIds, UsedBadgeIds, Len(list))
    IN  {[id |-> ids[i], user_id |-> userId, mood |-> list[i].mood,
          category |-> list[i].category, value |-> list[i].value] : i \in 1..Len(list)}

\* users.email UNIQUE: a committed row of another user holds the address
EmailTaken(email, id) == \E u \in users : u.email = email /\ u.id # id

\* ... or a row a transaction still open has written holds it, or the row
\* that holds it is being given another address, and the statement waits
EmailHeld(p, email, id) ==
    \/ \E q \in Procs \ {p} : \E u \in tx[q].insUsers \cup tx[q].updUsers :
           u.email = email /\ u.id # id
    \/ \E u \in users :
           /\ u.email = email /\ u.id # id
           /\ \E q \in Procs \ {p} : \E w \in tx[q].updUsers :
                  w.id = u.id /\ w.email # Missing

\* the tables once the writes of the transaction txn are committed
CommitUsers(txn) ==
    {IF \E w \in txn.updUsers : w.id = u.id
     THEN LET w == CHOOSE x \in txn.updUsers : x.id = u.id
          IN  [u EXCEPT !.name = IF w.name # Missing THEN w.name ELSE @,
                        !.email = IF w.email # Missing THEN w.email ELSE @]
     ELSE u : u \in users} \cup txn.insUsers

CommitItems(txn) == {r \in profile_items : r.id \notin txn.delItems} \cup txn.insItems

CommitBadges(txn) == {r \in mood_badges : r.id \notin txn.delBadges} \cup txn.insBadges

----------------------------------------------------------------------------
(* POST /profiles *)

CreateCall(b) ==
    [NoCall EXCEPT !.op = "create", !.email = b.email, !.name = b.name,
                   !.items = b.items, !.image = b.image]

\* the checks made before pool.connect(), then BEGIN and
\* SELECT id FROM users WHERE email = $1
CreateSelect(p, b) ==
    /\ Accept(p, "create")
    /\ LET c == CreateCall(b)
       IN  IF b.email = Missing
           THEN Reply(p, c, 400, "Missing required fields", "crt_validate", "", 0)
           ELSE IF ~EMAIL_REGEX(b.email)
           THEN Reply(p, c, 400, "Invalid email", "crt_validate", "", 0)
           ELSE IF b.image.given /\ ~validateProfileImage(b.image).valid
           THEN Reply(p, c, 400, "Invalid profile image", "crt_validate", "", 0)
           ELSE IF \E u \in users : u.email = b.email
           THEN Reply(p, c, 409, "Email already exists", "crt_select", "", 0)
           ELSE /\ Enter(p, c, "crt_user")
                /\ UNCHANGED <<tx, request>>
    /\ UNCHANGED <<db, now, clients, approvals>>

\* the row INSERT INTO users (email, name) VALUES ($1, $2) builds, name || null
NewUser(p) ==
    [id |-> CHOOSE i \in UUIDs : i \notin UsedUserIds,
     email |-> call[p].email, name |-> call[p].name]

CreateUser(p) ==
    /\ pc[p] = "crt_user"
    /\ ~EmailHeld(p, call[p].email, Missing)
    /\ IF EmailTaken(call[p].email, Missing)
       THEN \* catch: ROLLBACK; err.code === '23505'
            Reply(p, call[p], 409, "Email already exists", "crt_user", "23505", 0)
       ELSE /\ UUIDs \ UsedUserIds # {}
            /\ Goto(p, "crt_items")
            /\ tx' = [tx EXCEPT ![p].insUsers = {NewUser(p)}]
            /\ UNCHANGED request
    /\ UNCHANGED <<db, now, clients, approvals>>

\* the loop over the items, saveProfileImage (the DELETE finds no row of a
\* user this transaction inserted), COMMIT and res.status(201)
CreateItems(p) ==
    /\ pc[p] = "crt_items"
    /\ LET list == call[p].items.list
           more == IF call[p].image.given THEN <<ImageItem(call[p].image)>> ELSE <<>>
       IN  IF FirstInvalidItem(list) <= Len(list)
           THEN \* ROLLBACK
                /\ Reply(p, call[p], 400, "Invalid profile item", "crt_items", "", 0)
                /\ UNCHANGED <<users, profile_items>>
           ELSE /\ Cardinality(ItemIds \ UsedItemIds) >= Len(list \o more)
                /\ users' = CommitUsers(tx[p])
                /\ profile_items' = profile_items \cup
                       UNION {ItemRows(u.id, list \o more) : u \in tx[p].insUsers}
                /\ Reply(p, call[p], 201, "Profile created successfully", "crt_commit", "", 0)
    /\ UNCHANGED <<mood_badges, connections, validation_requests, validation_records,
                   locations, user_status, pings, now, clients, approvals>>

----------------------------------------------------------------------------
(* PUT /profiles/:id *)

UpdateCall(id, b) ==
    [NoCall EXCEPT !.op = "update", !.userId = id, !.name = b.name,
                   !.email = b.email, !.items = b.items,
                   !.moodBadges = b.moodBadges, !.image = b.image]

\* the statements of the handler a request body can run, in their order
UpdateStages == <<"upd_user", "upd_items", "upd_image", "upd_badges", "upd_commit">>

\* if (name || email), if (items && Array.isArray(items)),
\* if (profileImageData), if (Array.isArray(moodBadges))
Runs(c, stage) ==
    CASE stage = "upd_user" -> c.name # Missing \/ c.email # Missing
      [] stage = "upd_items" -> c.items.given
      [] stage = "upd_image" -> c.image.given
      [] stage = "upd_badges" -> c.moodBadges.given
      [] OTHER -> TRUE

\* the first statement after the n-th that the body c runs
NextStage(c, n) ==
    UpdateStages[CHOOSE i \in (n + 1)..Len(UpdateStages) :
                    /\ Runs(c, UpdateStages[i])
                    /\ \A j \in (n + 1)..(i - 1) : ~Runs(c, UpdateStages[j])]

\* the checks made before pool.connect(), then BEGIN and
\* SELECT id FROM users WHERE id = $1
UpdateSelect(p, id, b) ==
    /\ Accept(p, "update")
    /\ LET c == UpdateCall(id, b)
       IN  IF ~isValidUUID(id)
           THEN Reply(p, c, 400, "Invalid id", "upd_validate", "", 0)
           ELSE IF b.image.given /\ ~validateProfileImage(b.image).valid
           THEN Reply(p, c, 400, "Invalid profile image", "upd_validate", "", 0)
           ELSE IF ~\E u \in users : u.id = id
           THEN Reply(p, c, 404, "User not found", "upd_select", "", 0)
           ELSE /\ Enter(p, c, NextStage(c, 0))
                /\ UNCHANGED <<tx, request>>
    /\ UNCHANGED <<db, now, clients, approvals>>

\* a transaction still open has updated the users row: the UPDATE waits
UserLocked(p, id) == \E q \in Procs \ {p} : \E w \in tx[q].updUsers : w.id = id

\* UPDATE users SET name = .., email = .., updated_at = CURRENT_TIMESTAMP WHERE id = ..
UpdateUser(p) ==
    /\ pc[p] = "upd_user"
    /\ ~UserLocked(p, call[p].userId)
    /\ call[p].email # Missing => ~EmailHeld(p, call[p].email, call[p].userId)
    /\ IF ~\E u \in users : u.id = call[p].userId
       THEN Reply(p, call[p], 404, "Update failed", "upd_user", "", 0)
       ELSE IF call[p].email # Missing /\ EmailTaken(call[p].email, call[p].userId)
       THEN \* err.code === '23505' && err.constraint === 'users_email_key': ROLLBACK
            Reply(p, call[p], 409, "Email already exists", "upd_user", "23505", 0)
       ELSE /\ tx' = [tx EXCEPT ![p].updUsers =
                         {[id |-> call[p].userId, name |-> call[p].name,
                           email |-> call[p].email]}]
            /\ Goto(p, NextStage(call[p], 1))
            /\ UNCHANGED request
    /\ UNCHANGED <<db, now, clients, approvals>>

\* a DELETE waits while a transaction still open has deleted one of its rows
ItemsLocked(p, ids) == \E q \in Procs \ {p} : ids \cap tx[q].delItems # {}
BadgesLocked(p, ids) == \E q \in Procs \ {p} : ids \cap tx[q].delBadges # {}

\* the statement found a row locked: it keeps the rows it saw and waits
Wait(p, ids, label) ==
    /\ tx' = [tx EXCEPT ![p].targets = ids, ![p].waits = pc[p]]
    /\ Goto(p, label)
    /\ UNCHANGED request

\* a DELETE without the test of item_type
OtherItems_All(userId) == {r.id : r \in {x \in profile_items : x.user_id = userId}}

\* the rows DELETE FROM profile_items WHERE user_id = $1 AND item_type != 'profile_image' sees
OtherItems(userId) ==
    {r.id : r \in {x \in profile_items :
                      x.user_id = userId /\ x.item_type # "profile_image"}}

\* the DELETE of the rows ids, then the loop over the items
ReplaceItems(p, ids) ==
    LET list == call[p].items.list
    IN  IF FirstInvalidItem(list) <= Len(list)
        THEN \* ROLLBACK
             Reply(p, call[p], 400, "Invalid item format", "upd_items", "", 0)
        ELSE /\ Cardinality(ItemIds \ UsedItemIds) >= Len(list)
             /\ tx' = [tx EXCEPT ![p].delItems = @ \cup ids,
                                 ![p].insItems = @ \cup ItemRows(call[p].userId, list),
                                 ![p].targets = {}, ![p].waits = ""]
             /\ Goto(p, NextStage(call[p], 2))
             /\ UNCHANGED request

UpdateItems(p) ==
    /\ pc[p] = "upd_items"
    /\ IF ItemsLocked(p, OtherItems(call[p].userId))
       THEN Wait(p, OtherItems(call[p].userId), "upd_wait")
       ELSE ReplaceItems(p, OtherItems(call[p].userId))
    /\ UNCHANGED <<db, now, clients, approvals>>

\* the rows DELETE FROM profile_items WHERE user_id = $1 AND item_type = 'profile_image' sees
ImageItems(userId) ==
    {r.id : r \in {x \in profile_items :
                      x.user_id = userId /\ x.item_type = "profile_image"}}

\* saveProfileImage: the DELETE of the rows ids, then the INSERT
saveProfileImage(p, ids) ==
    /\ Cardinality(ItemIds \ UsedItemIds) >= 1
    /\ tx' = [tx EXCEPT ![p].delItems = @ \cup ids,
                        ![p].insItems = @ \cup ItemRows(call[p].userId,
                                                        <<ImageItem(call[p].image)>>),
                        ![p].targets = {}, ![p].waits = ""]
    /\ Goto(p, NextStage(call[p], 3))
    /\ UNCHANGED request

UpdateImage(p) ==
    /\ pc[p] = "upd_image"
    /\ IF ItemsLocked(p, ImageItems(call[p].userId))
       THEN Wait(p, ImageItems(call[p].userId), "upd_wait")
       ELSE saveProfileImage(p, ImageItems(call[p].userId))
    /\ UNCHANGED <<db, now, clients, approvals>>

\* the rows DELETE FROM mood_badges WHERE user_id = $1 sees
UserBadges(userId) == {r.id : r \in {x \in mood_badges : x.user_id = userId}}

\* the DELETE of the rows ids, then the loop over the badges
ReplaceBadges(p, ids) ==
    LET list == call[p].moodBadges.list
    IN  IF FirstInvalidBadge(list) <= Len(list)
        THEN \* ROLLBACK
             Reply(p, call[p], 400, "Invalid mood badge format", "upd_badges", "", 0)
        ELSE /\ Cardinality(BadgeIds \ UsedBadgeIds) >= Len(list)
             /\ tx' = [tx EXCEPT ![p].delBadges = @ \cup ids,
                                 ![p].insBadges = @ \cup BadgeRows(call[p].userId, list),
                                 ![p].targets = {}, ![p].waits = ""]
             /\ Goto(p, NextStage(call[p], 4))
             /\ UNCHANGED request

UpdateBadges(p) ==
    /\ pc[p] = "upd_badges"
    /\ IF BadgesLocked(p, UserBadges(call[p].userId))
       THEN Wait(p, UserBadges(call[p].userId), "upd_wait")
       ELSE ReplaceBadges(p, UserBadges(call[p].userId))
    /\ UNCHANGED <<db, now, clients, approvals>>

\* the lock is gone: the DELETE that waited removes the rows it saw that are
\* still there, and the handler goes on
UpdateWake(p) ==
    /\ pc[p] = "upd_wait"
    /\ CASE tx[p].waits = "upd_items" ->
               /\ ~ItemsLocked(p, tx[p].targets)
               /\ ReplaceItems(p, tx[p].targets \cap {r.id : r \in profile_items})
         [] tx[p].waits = "upd_image" ->
               /\ ~ItemsLocked(p, tx[p].targets)
               /\ saveProfileImage(p, tx[p].targets \cap {r.id : r \in profile_items})
         [] OTHER ->
               /\ ~BadgesLocked(p, tx[p].targets)
               /\ ReplaceBadges(p, tx[p].targets \cap {r.id : r \in mood_badges})
    /\ UNCHANGED <<db, now, clients, approvals>>

\* COMMIT
UpdateCommit(p) ==
    /\ pc[p] = "upd_commit"
    /\ users' = CommitUsers(tx[p])
    /\ profile_items' = CommitItems(tx[p])
    /\ mood_badges' = CommitBadges(tx[p])
    /\ tx' = [tx EXCEPT ![p] = NoTx]
    /\ Goto(p, "upd_fetch")
    /\ UNCHANGED <<connections, validation_requests, validation_records,
                   locations, user_status, pings, now, clients, request, approvals>>

\* after the COMMIT: SELECT ... FROM users u WHERE u.id = $1, getProfileImage
\* and res.json
UpdateFetch(p) ==
    /\ pc[p] = "upd_fetch"
    /\ Reply(p, call[p], 200, "", "upd_fetch", "", 0)
    /\ UNCHANGED <<db, now, clients, approvals>>

----------------------------------------------------------------------------
(* A statement the store fails: a query of a handler that holds a client   *)
(* throws an error that is no constraint violation (57014, the statement   *)
(* was cancelled).  Every await of the handlers sits in the try block, so  *)
(* the catch block runs: ROLLBACK and res.status(500).                     *)

StoreFailure(p) ==
    /\ pc[p] # "idle"
    /\ Reply(p, call[p], 500, "Internal server error", pc[p], "57014", 0)
    /\ UNCHANGED <<db, now, clients, approvals>>

----------------------------------------------------------------------------
(* Two clients of the validation workflow or of the profiles, and a store  *)
(* that can fail a statement.                                              *)

List(s) == [given |-> TRUE, list |-> s]

SkillItem ==
    [type |-> "skill", data |-> [key |-> <<"s">>, val |-> RustText],
     item_type |-> Missing, item_data |-> NoData]

\* the item_type/item_data shape
LegacyItem ==
    [type |-> Missing, data |-> NoData,
     item_type |-> "skill", item_data |-> [key |-> <<"s">>, val |-> GoText]]

\* an item without its data
MalformedItem ==
    [type |-> "skill", data |-> NoData, item_type |-> Missing, item_data |-> NoData]

HappyBadge == [mood |-> "happy", category |-> "work", value |-> "v"]

\* a badge without its category
MalformedBadge == [mood |-> "happy", category |-> Missing, value |-> "v"]

Jpeg == [given |-> TRUE, prefix |-> "data:image/jpeg;base64,",
         base64 |-> <<"A">>, length |-> 4]

Png == [given |-> TRUE, prefix |-> "data:image/png;base64,",
        base64 |-> <<"A">>, length |-> 4]

NoBody == [name |-> Missing, email |-> Missing, items |-> NoList,
           moodBadges |-> NoList, image |-> NoImage]

CreateBodies ==
    {[NoBody EXCEPT !.email = "c@x.com", !.items = List(<<SkillItem, MalformedItem>>)],
     [NoBody EXCEPT !.email = "c@x.com", !.items = List(<<LegacyItem>>), !.image = Jpeg],
     [NoBody EXCEPT !.email = "c@x.com", !.image = Png],
     [NoBody EXCEPT !.email = "a@x.com"],
     [NoBody EXCEPT !.email = "c@x"]}

UpdateIdInputs == {U2, U3, BadId}

UpdateBodies ==
    {[NoBody EXCEPT !.name = "B", !.items = List(<<SkillItem>>),
                    !.moodBadges = List(<<HappyBadge>>), !.image = Jpeg],
     [NoBody EXCEPT !.email = "a@x.com"],
     [NoBody EXCEPT !.items = List(<<SkillItem, MalformedItem>>)],
     [NoBody EXCEPT !.items = List(<<LegacyItem>>),
                    !.moodBadges = List(<<HappyBadge, MalformedBadge>>)]}

\* the routes the two clients call: both the validation workflow, one
\* client the profiles, both POST /profiles, or both PUT /profiles/:id
StoreClients ==
    {[p \in Procs |-> ValidationRoutes],
     [p \in Procs |-> IF p = "p1" THEN ProfileRoutes ELSE {}],
     [p \in Procs |-> {"create"}],
     [p \in Procs |-> {"update"}]}

\* the request of the first user for the second user's skill, approved, and
\* the record the approval inserted
GoRequest ==
    [id |-> 1, from_user_id |-> U1, to_user_id |-> U2, category |-> "skills",
     specific_item |-> GoText, status |-> "approved",
     created_at |-> 0, expires_at |-> ExpiryDays]

GoRecord ==
    [id |-> 1, validated_user_id |-> U2, validator_user_id |-> U1,
     category |-> "skills", specific_item |-> GoText,
     validation_request_id |-> 1]

\* the scenario of one client that calls the profile routes starts after
\* Connect, RequestValidation and RespondToValidation 'approved' have run
Endorsed(cl) == \E p \in Procs : cl[p] = {}

InitStore ==
    /\ clients \in StoreClients
    /\ users = InitUsers
    /\ profile_items = {GoItem}
    /\ mood_badges = {}
    /\ connections = IF Endorsed(clients) THEN {NewConnection(U1, U2)} ELSE {}
    /\ validation_requests = IF Endorsed(clients) THEN {GoRequest} ELSE {}
    /\ validation_records = IF Endorsed(clients) THEN {GoRecord} ELSE {}
    /\ locations = {}
    /\ user_status = {}
    /\ pings = {}
    /\ now = 0
    /\ pc = [p \in Procs |-> "idle"]
    /\ call = [p \in Procs |-> NoCall]
    /\ request = [p \in Procs |-> {}]
    /\ tx = [p \in Procs |-> NoTx]
    /\ out = Silent
    /\ approvals = [i \in ReqIds |-> IF Endorsed(clients) /\ i = 1 THEN 1 ELSE 0]

NextStore ==
    \/ Next
    \/ \E p \in Procs, b \in CreateBodies : CreateSelect(p, b)
    \/ \E p \in Procs : CreateUser(p)
    \/ \E p \in Procs : CreateItems(p)
    \/ \E p \in Procs, id \in UpdateIdInputs, b \in UpdateBodies : UpdateSelect(p, id, b)
    \/ \E p \in Procs : UpdateUser(p)
    \/ \E p \in Procs : UpdateItems(p)
    \/ \E p \in Procs : UpdateImage(p)
    \/ \E p \in Procs : UpdateBadges(p)
    \/ \E p \in Procs : UpdateWake(p)
    \/ \E p \in Procs : UpdateCommit(p)
    \/ \E p \in Procs : UpdateFetch(p)
    \/ \E p \in Procs : StoreFailure(p)

SpecStore == InitStore /\ [][NextStore]_vars

----------------------------------------------------------------------------
(* Two clients that each send PUT /profiles/:id with a profile image only. *)

\* a second JPEG, with other content
Portrait == [given |-> TRUE, prefix |-> "data:image/jpeg;base64,",
             base64 |-> <<"B">>, length |-> 4]

ImageBodies == {[NoBody EXCEPT !.image = Jpeg], [NoBody EXCEPT !.image = Portrait]}

ImageIdInputs == {U2}

InitImage ==
    /\ users = InitUsers
    /\ profile_items = {GoItem}
    /\ mood_badges = {}
    /\ connections = {}
    /\ validation_requests = {}
    /\ validation_records = {}
    /\ locations = {}
    /\ user_status = {}
    /\ pings = {}
    /\ now = 0
    /\ clients = [p \in Procs |-> {"update"}]
    /\ pc = [p \in Procs |-> "idle"]
    /\ call = [p \in Procs |-> NoCall]
    /\ request = [p \in Procs |-> {}]
    /\ tx = [p \in Procs |-> NoTx]
    /\ out = Silent
    /\ approvals = [i \in ReqIds |-> 0]

NextImage ==
    \/ \E p \in Procs, id \in ImageIdInputs, b \in ImageBodies : UpdateSelect(p, id, b)
    \/ \E p \in Procs : UpdateImage(p)
    \/ \E p \in Procs : UpdateWake(p)
    \/ \E p \in Procs : UpdateCommit(p)
    \/ \E p \in Procs : UpdateFetch(p)
    \/ \E p \in Procs : StoreFailure(p)

SpecImage == InitImage /\ [][NextImage]_vars

----------------------------------------------------------------------------
(* One client that sends PUT /profiles/:id with bodies that hold some of   *)
(* the fields, to a profile that has an item, an image and a mood badge.   *)

GoImage == [id |-> 2, user_id |-> U2, item_type |-> "profile_image",
            item_data |-> [key |-> <<"imageData">>, val |-> <<"A">>]]

GoBadge == [id |-> 1, user_id |-> U2, mood |-> "calm", category |-> "home",
            value |-> "v"]

\* an item and a badge of the first user
RustItem == [id |-> 3, user_id |-> U1, item_type |-> "skill",
             item_data |-> [key |-> <<"s">>, val |-> RustText]]

RustBadge == [id |-> 2, user_id |-> U1, mood |-> "happy", category |-> "work",
              value |-> "v"]

PartialBodies ==
    {[NoBody EXCEPT !.items = List(<<LegacyItem, SkillItem>>)],
     [NoBody EXCEPT !.items = List(<<>>)],
     [NoBody EXCEPT !.moodBadges = List(<<HappyBadge>>)],
     [NoBody EXCEPT !.moodBadges = List(<<>>)],
     [NoBody EXCEPT !.name = "B"],
     [NoBody EXCEPT !.email = "b2@x.com"],
     [NoBody EXCEPT !.image = Portrait],
     NoBody}

PartialIdInputs == {U2}

InitPartial ==
    /\ users = InitUsers
    /\ profile_items = {GoItem, GoImage, RustItem}
    /\ mood_badges = {GoBadge, RustBadge}
    /\ connections = {}
    /\ validation_requests = {}
    /\ validation_records = {}
    /\ locations = {}
    /\ user_status = {}
    /\ pings = {}
    /\ now = 0
    /\ clients = [p \in Procs |-> IF p = "p1" THEN {"update"} ELSE {}]
    /\ pc = [p \in Procs |-> "idle"]
    /\ call = [p \in Procs |-> NoCall]
    /\ request = [p \in Procs |-> {}]
    /\ tx = [p \in Procs |-> NoTx]
    /\ out = Silent
    /\ approvals = [i \in ReqIds |-> 0]

NextPartial ==
    \/ \E p \in Procs, id \in PartialIdInputs, b \in PartialBodies : UpdateSelect(p, id, b)
    \/ \E p \in Procs : UpdateUser(p)
    \/ \E p \in Procs : UpdateItems(p)
    \/ \E p \in Procs : UpdateImage(p)
    \/ \E p \in Procs : UpdateBadges(p)
    \/ \E p \in Procs : UpdateCommit(p)
    \/ \E p \in Procs : UpdateFetch(p)
    \/ \E p \in Procs : StoreFailure(p)

SpecPartial == InitPartial /\ [][NextPartial]_vars

----------------------------------------------------------------------------
(* Distances, query strings and the clock in minutes. *)

Abs(x) == IF x < 0 THEN -x ELSE x

\* earth() * pi / 180, in meters: the length of one degree of a great circle
MetersPerDegree == 111319

\* earth_distance(ll_to_earth(lat1, lng), ll_to_earth(lat2, lng)) for two
\* points of one meridian, which the points of the model are
earth_distance(lat1, lat2) == Abs(lat1 - lat2) * MetersPerDegree

\* the text of a query parameter that is no number
NotANumber == "abc"

\* parseFloat of the query parameters the model sends; isNaN of its result
QueryNumbers == {"10", "11", "30", "91", "112", "100"}
isNaN(text) == text \notin QueryNumbers
parseFloat(text) ==
    CASE text = "10" -> 10
      [] text = "11" -> 11
      [] text = "30" -> 30
      [] text = "91" -> 91
      [] text = "112" -> 112
      [] text = "100" -> 100
      [] OTHER -> 0

\* the clock moves on to the next of the instants
TickTo(instants) ==
    /\ \E t \in instants :
          /\ t > now
          /\ \A s \in instants : s > now => t <= s
          /\ now' = t
    /\ out' = Silent
    /\ UNCHANGED <<db, clients, pc, call, request, tx, approvals>>

----------------------------------------------------------------------------
(* POST /pings and GET /pings/nearby *)

PingIds == 1..MaxPingRows

PingCall(b) ==
    [NoCall EXCEPT !.op = "ping", !.userId = b.userId, !.message = b.message,
                   !.mood = b.mood, !.lat = b.latitude, !.lng = b.longitude,
                   !.category = b.category, !.value = b.value]

\* const isValidCategory = (category) => ['skill', 'education', 'experience'].includes(category)
isValidCategory(category) == category \in {"skill", "education", "experience"}

\* !userId || !message || !mood || !latitude || !longitude || !category || !value
MissingPingField(b) ==
    \/ b.userId = Missing \/ b.message = Missing \/ b.mood = Missing
    \/ b.latitude = 0 \/ b.longitude = 0
    \/ b.category = Missing \/ b.value = Missing

\* the checks of the body, then SELECT id FROM users WHERE id = $1
PingUser(p, b) ==
    /\ Accept(p, "ping")
    /\ IF MissingPingField(b)
       THEN Reply(p, PingCall(b), 400, "Missing required fields", "png_validate", "", 0)
       ELSE IF ~isValidCategory(b.category)
       THEN Reply(p, PingCall(b), 400, "Invalid category", "png_validate", "", 0)
       ELSE IF b.latitude < -90 \/ b.latitude > 90
       THEN Reply(p, PingCall(b), 400, "Invalid latitude", "png_validate", "", 0)
       ELSE IF b.longitude < -180 \/ b.longitude > 180
       THEN Reply(p, PingCall(b), 400, "Invalid longitude", "png_validate", "", 0)
       ELSE IF {u \in users : u.id = b.userId} = {}
       THEN Reply(p, PingCall(b), 404, "User not found", "png_user", "", 0)
       ELSE /\ Enter(p, PingCall(b), "png_insert")
            /\ UNCHANGED <<tx, request>>
    /\ UNCHANGED <<db, now, clients, approvals>>

\* the row INSERT INTO pings (user_id, message, mood, latitude, longitude,
\* category, value) builds; id and created_at take their defaults
NewPing(c) ==
    [id |-> FreshId(PingIds, pings), user_id |-> c.userId, message |-> c.message,
     mood |-> c.mood, latitude |-> c.lat, longitude |-> c.lng,
     category |-> c.category, value |-> c.value, created_at |-> now]

\* the INSERT runs alone (autocommit); res.json
PingInsert(p) ==
    /\ pc[p] = "png_insert"
    /\ HasFreshId(PingIds, pings)
    /\ pings' = pings \cup {NewPing(call[p])}
    /\ Reply(p, call[p], 200, "Ping created successfully", "png_insert", "",
             FreshId(PingIds, pings))
    /\ UNCHANGED <<users, profile_items, mood_badges, connections, validation_requests,
                   validation_records, locations, user_status, now, clients, approvals>>

\* const radiusMeters = 1000
radiusMeters == 1000

\* INTERVAL '15 minutes'
PingMinutes == 15

\* a query that lists the requester's own pings too
NotAuthor_Anyone(ping, userId) == TRUE

\* p.user_id != $3
NotAuthor(ping, userId) == ping.user_id # userId

\* the rows of the query of GET /pings/nearby: FROM pings p JOIN users u
\* WHERE p.user_id != $3 AND p.created_at > NOW() - INTERVAL '15 minutes'
\* AND earth_distance(...) <= $4
NearbyPings(latitude, longitude, userId) ==
    {ping \in pings :
        /\ \E u \in users : u.id = ping.user_id
        /\ NotAuthor(ping, userId)
        /\ ping.created_at > now - PingMinutes
        /\ earth_distance(ping.latitude, latitude) <= radiusMeters}

\* router.get('/nearby'): the checks of the query string, then the query
FindNearbyPings(lat, lng, userId) ==
    IF lat = Missing \/ lng = Missing \/ userId = Missing
    THEN [code |-> 400, rows |-> {}]
    ELSE IF isNaN(lat) \/ isNaN(lng)
    THEN [code |-> 400, rows |-> {}]
    ELSE IF ~isValidUUID(userId)
    THEN [code |-> 400, rows |-> {}]
    ELSE IF parseFloat(lat) < -90 \/ parseFloat(lat) > 90
    THEN [code |-> 400, rows |-> {}]
    ELSE IF parseFloat(lng) < -180 \/ parseFloat(lng) > 180
    THEN [code |-> 400, rows |-> {}]
    ELSE [code |-> 200, rows |-> NearbyPings(parseFloat(lat), parseFloat(lng), userId)]

----------------------------------------------------------------------------
(* Two clients that create pings while the minutes pass. *)

NoPing == [userId |-> Missing, message |-> Missing, mood |-> Missing,
           latitude |-> 0, longitude |-> 0, category |-> Missing, value |-> Missing]

PingBodies ==
    {[NoPing EXCEPT !.userId = u, !.message = "hi", !.mood = "happy",
                    !.latitude = lat, !.longitude = 10,
                    !.category = "skill", !.value = "v"] :
        u \in {U1, U2}, lat \in {10, 11}}
    \cup
    {[NoPing EXCEPT !.userId = U1, !.message = "hi", !.mood = "happy",
                    !.latitude = 10, !.longitude = 10],
     [NoPing EXCEPT !.userId = U1, !.message = "hi", !.mood = "happy",
                    !.latitude = 10, !.longitude = 10,
                    !.category = "bogus", !.value = "v"],
     [NoPing EXCEPT !.userId = U3, !.message = "hi", !.mood = "happy",
                    !.latitude = 10, !.longitude = 10,
                    !.category = "skill", !.value = "v"],
     [NoPing EXCEPT !.userId = U1, !.message = "hi", !.mood = "happy",
                    !.latitude = 91, !.longitude = 10,
                    !.category = "skill", !.value = "v"]}

\* the minutes at which the model looks at the store
PingInstants == {0, 2, 15, 16}

InitPings ==
    /\ users = InitUsers
    /\ profile_items = {GoItem}
    /\ mood_badges = {}
    /\ connections = {}
    /\ validation_requests = {}
    /\ validation_records = {}
    /\ locations = {}
    /\ user_status = {}
    /\ pings = {}
    /\ now = 0
    /\ clients = [p \in Procs |-> {"ping"}]
    /\ pc = [p \in Procs |-> "idle"]
    /\ call = [p \in Procs |-> NoCall]
    /\ request = [p \in Procs |-> {}]
    /\ tx = [p \in Procs |-> NoTx]
    /\ out = Silent
    /\ approvals = [i \in ReqIds |-> 0]

NextPings ==
    \/ \E p \in Procs, b \in PingBodies : PingUser(p, b)
    \/ \E p \in Procs : PingInsert(p)
    \/ \E p \in Procs : StoreFailure(p)
    \/ TickTo(PingInstants)

SpecPings == InitPings /\ [][NextPings]_vars

----------------------------------------------------------------------------
(* POST /locations.  The handler runs its two queries on the pool, each in *)
(* its own transaction; other handlers run between them.                   *)

LocIds == 1..MaxLocRows

LocationCall(userId, lat, lng) ==
    [NoCall EXCEPT !.op = "location", !.userId = userId, !.lat = lat, !.lng = lng]

\* the checks of the body (0 is falsy: !lat, !lng), then
\* SELECT id FROM users WHERE id = $1
LocationUser(p, userId, lat, lng) ==
    /\ Accept(p, "location")
    /\ IF userId = Missing \/ lat = 0 \/ lng = 0
       THEN Reply(p, LocationCall(userId, lat, lng), 400, "Missing required fields", "loc_validate", "", 0)
       ELSE IF lat < -90 \/ lat > 90
       THEN Reply(p, LocationCall(userId, lat, lng), 400, "Invalid latitude", "loc_validate", "", 0)
       ELSE IF lng < -180 \/ lng > 180
       THEN Reply(p, LocationCall(userId, lat, lng), 400, "Invalid longitude", "loc_validate", "", 0)
       ELSE IF ~isValidUUID(userId)
       THEN Reply(p, LocationCall(userId, lat, lng), 400, "Invalid userId", "loc_validate", "", 0)
       ELSE IF {u \in users : u.id = userId} = {}
       THEN Reply(p, LocationCall(userId, lat, lng), 404, "User not found", "loc_user", "", 0)
       ELSE /\ Enter(p, LocationCall(userId, lat, lng), "loc_upsert")
            /\ UNCHANGED <<tx, request>>
    /\ UNCHANGED <<db, now, clients, approvals>>

\* an INSERT that no constraint stops
LocationConflict_PlainInsert(userId) == {}

\* ON CONFLICT (user_id): the rows unique_user_location sets against a new
\* row of userId
LocationConflict(userId) == {l \in locations : l.user_id = userId}

\* INSERT INTO locations ... VALUES ($1, $2, $3, NOW())
\* ON CONFLICT (user_id) DO UPDATE SET latitude = EXCLUDED.latitude,
\*     longitude = EXCLUDED.longitude, created_at = NOW();
\* parseFloat of a JSON number is that number
UpsertLocation(userId, lat, lng) ==
    IF LocationConflict(userId) = {}
    THEN locations \cup {[id |-> FreshId(LocIds, locations), user_id |-> userId,
                          latitude |-> lat, longitude |-> lng, created_at |-> now]}
    ELSE {IF l \in LocationConflict(userId)
          THEN [l EXCEPT !.latitude = lat, !.longitude = lng, !.created_at = now]
          ELSE l : l \in locations}

\* the statement runs alone (autocommit); res.json
LocationUpsert(p) ==
    /\ pc[p] = "loc_upsert"
    /\ LocationConflict(call[p].userId) = {} => HasFreshId(LocIds, locations)
    /\ locations' = UpsertLocation(call[p].userId, call[p].lat, call[p].lng)
    /\ Reply(p, call[p], 200, "Location saved successfully", "loc_upsert", "", 0)
    /\ UNCHANGED <<users, profile_items, mood_badges, connections, validation_requests,
                   validation_records, user_status, pings, now, clients, approvals>>

----------------------------------------------------------------------------
(* POST /status/broadcasting and POST /status/heartbeat *)

\* typeof is_broadcasting === 'boolean': the two JSON booleans
JsonBooleans == {"true", "false"}

BroadcastingCall(userId, b) ==
    [NoCall EXCEPT !.op = "broadcasting", !.userId = userId, !.is_broadcasting = b]

HeartbeatCall(userId) == [NoCall EXCEPT !.op = "heartbeat", !.userId = userId]

\* the checks of the body, then SELECT id FROM users WHERE id = $1
BroadcastingUser(p, userId, b) ==
    /\ Accept(p, "broadcasting")
    /\ IF userId = Missing \/ b \notin JsonBooleans
       THEN Reply(p, BroadcastingCall(userId, b), 400, "Missing or invalid required fields", "brd_validate", "", 0)
       ELSE IF ~isValidUUID(userId)
       THEN Reply(p, BroadcastingCall(userId, b), 400, "Invalid user ID format", "brd_validate", "", 0)
       ELSE IF {u \in users : u.id = userId} = {}
       THEN Reply(p, BroadcastingCall(userId, b), 404, "User not found", "brd_user", "", 0)
       ELSE /\ Enter(p, BroadcastingCall(userId, b), "brd_upsert")
            /\ UNCHANGED <<tx, request>>
    /\ UNCHANGED <<db, now, clients, approvals>>

\* user_id UUID PRIMARY KEY: the row ON CONFLICT (user_id) finds
StatusConflict(userId) == {s \in user_status : s.user_id = userId}

\* the row INSERT INTO user_status (user_id, is_broadcasting, last_seen)
\* VALUES ($1, $2, NOW()) builds; created_at and updated_at default to NOW()
NewStatus(userId, b) ==
    [user_id |-> userId, is_broadcasting |-> b, last_seen |-> now,
     created_at |-> now, updated_at |-> now]

\* DO UPDATE SET is_broadcasting = EXCLUDED.is_broadcasting, last_seen = NOW();
\* trigger_update_user_status_updated_at sets updated_at
BroadcastingUpdate(s, b) ==
    [s EXCEPT !.is_broadcasting = b, !.last_seen = now, !.updated_at = now]

BroadcastingUpsert(p) ==
    /\ pc[p] = "brd_upsert"
    /\ user_status' =
          IF StatusConflict(call[p].userId) = {}
          THEN user_status \cup {NewStatus(call[p].userId, call[p].is_broadcasting)}
          ELSE {IF s \in StatusConflict(call[p].userId)
                THEN BroadcastingUpdate(s, call[p].is_broadcasting)
                ELSE s : s \in user_status}
    /\ Reply(p, call[p], 200, "Broadcasting status", "brd_upsert", "", 0)
    /\ UNCHANGED <<users, profile_items, mood_badges, connections, validation_requests,
                   validation_records, locations, pings, now, clients, approvals>>

HeartbeatUser(p, userId) ==
    /\ Accept(p, "heartbeat")
    /\ IF userId = Missing
       THEN Reply(p, HeartbeatCall(userId), 400, "Missing required field", "hb_validate", "", 0)
       ELSE IF ~isValidUUID(userId)
       THEN Reply(p, HeartbeatCall(userId), 400, "Invalid user ID format", "hb_validate", "", 0)
       ELSE IF {u \in users : u.id = userId} = {}
       THEN Reply(p, HeartbeatCall(userId), 404, "User not found", "hb_user", "", 0)
       ELSE /\ Enter(p, HeartbeatCall(userId), "hb_upsert")
            /\ UNCHANGED <<tx, request>>
    /\ UNCHANGED <<db, now, clients, approvals>>

\* a heartbeat whose UPDATE takes every column of the row it proposed
HeartbeatUpdate_Excluded(s) ==
    [s EXCEPT !.is_broadcasting = "false", !.last_seen = now, !.updated_at = now]

\* DO UPDATE SET last_seen = NOW(); the trigger sets updated_at
HeartbeatUpdate(s) == [s EXCEPT !.last_seen = now, !.updated_at = now]

\* INSERT INTO user_status ... VALUES ($1, false, NOW()) ON CONFLICT (user_id) ...
HeartbeatUpsert(p) ==
    /\ pc[p] = "hb_upsert"
    /\ user_status' =
          IF StatusConflict(call[p].userId) = {}
          THEN user_status \cup {NewStatus(call[p].userId, "false")}
          ELSE {IF s \in StatusConflict(call[p].userId) THEN HeartbeatUpdate(s) ELSE s :
                   s \in user_status}
    /\ Reply(p, call[p], 200, "Heartbeat updated", "hb_upsert", "", 0)
    /\ UNCHANGED <<users, profile_items, mood_badges, connections, validation_requests,
                   validation_records, locations, pings, now, clients, approvals>>

----------------------------------------------------------------------------
(* Two clients that report locations, set the broadcasting flag and send   *)
(* heartbeats, and a store that can fail a statement.                      *)

PresenceRoutes == {"location", "broadcasting", "heartbeat"}

PresenceUserInputs == {U1, U2, U3, BadId}
LatInputs == {0, 10, 20, 91}
LngInputs == {30, 181}
BroadcastingInputs == {"true", "false", Missing}

\* the routes the two clients call: both report locations, or both set the
\* flag and send heartbeats
PresenceClients ==
    {[p \in Procs |-> {"location"}],
     [p \in Procs |-> {"broadcasting", "heartbeat"}]}

\* the rows UpsertLocation(u1, 10, 30) and SetBroadcasting(u1, true) leave
HomeLocation ==
    [id |-> 1, user_id |-> U1, latitude |-> 10, longitude |-> 30, created_at |-> 0]

OnAir ==
    [user_id |-> U1, is_broadcasting |-> "true", last_seen |-> 0,
     created_at |-> 0, updated_at |-> 0]

\* the clients of one table start after the first user has called the route
\* that fills the other
Located(cl) == \A p \in Procs : "location" \notin cl[p]

InitPresence ==
    /\ clients \in PresenceClients
    /\ users = InitUsers
    /\ profile_items = {GoItem}
    /\ mood_badges = {}
    /\ connections = {}
    /\ validation_requests = {}
    /\ validation_records = {}
    /\ locations = IF Located(clients) THEN {HomeLocation} ELSE {}
    /\ user_status = IF Located(clients) THEN {} ELSE {OnAir}
    /\ pings = {}
    /\ now = 0
    /\ pc = [p \in Procs |-> "idle"]
    /\ call = [p \in Procs |-> NoCall]
    /\ request = [p \in Procs |-> {}]
    /\ tx = [p \in Procs |-> NoTx]
    /\ out = Silent
    /\ approvals = [i \in ReqIds |-> 0]

NextPresence ==
    \/ \E p \in Procs, u \in PresenceUserInputs, lat \in LatInputs, lng \in LngInputs :
          LocationUser(p, u, lat, lng)
    \/ \E p \in Procs : LocationUpsert(p)
    \/ \E p \in Procs, u \in PresenceUserInputs, b \in BroadcastingInputs :
          BroadcastingUser(p, u, b)
    \/ \E p \in Procs : BroadcastingUpsert(p)
    \/ \E p \in Procs, u \in PresenceUserInputs : HeartbeatUser(p, u)
    \/ \E p \in Procs : HeartbeatUpsert(p)
    \/ \E p \in Procs : StoreFailure(p)
    \/ Tick

SpecPresence == InitPresence /\ [][NextPresence]_vars

----------------------------------------------------------------------------
(* GET /locations/nearby and GET /status/:userId *)

\* us.is_broadcasting = true
Broadcasting(us) == us.is_broadcasting = "true"

\* INTERVAL '3 minutes' and 3 * 60 * 1000 milliseconds, in minutes
OnlineMinutes == 3

\* a query that reads no heartbeat
RecentlySeen_Always(us) == TRUE

\* us.last_seen > NOW() - INTERVAL '3 minutes'
RecentlySeen(us) == us.last_seen > now - OnlineMinutes

\* createNearbyCondition('l'): earth_distance(ll_to_earth(l.latitude,
\* l.longitude), ll_to_earth($1, $2)) <= $3 * 1000
createNearbyCondition(l, latitude, radiusKm) ==
    earth_distance(l.latitude, latitude) <= radiusKm * 1000

\* FROM locations l JOIN users u ON u.id = l.user_id
\* JOIN user_status us ON u.id = us.user_id WHERE ...
NearbyJoin(latitude, longitude, radiusNum) ==
    {pair \in locations \X user_status :
        /\ \E u \in users : u.id = pair[1].user_id /\ u.id = pair[2].user_id
        /\ createNearbyCondition(pair[1], latitude, radiusNum)
        /\ Broadcasting(pair[2])
        /\ RecentlySeen(pair[2])}

\* the columns of the SELECT list
NearbyRow(l, us) ==
    [userId |-> l.user_id, latitude |-> l.latitude, longitude |-> l.longitude,
     locationUpdatedAt |-> l.created_at, lastSeen |-> us.last_seen,
     isBroadcasting |-> us.is_broadcasting]

\* router.get('/nearby') of the locations routes: the checks of the query
\* string, then the query
FindNearbyLocations(lat, lng, radius) ==
    IF lat = Missing \/ lng = Missing \/ radius = Missing
    THEN [code |-> 400, rows |-> {}]
    ELSE IF isNaN(lat) \/ isNaN(lng) \/ isNaN(radius)
    THEN [code |-> 400, rows |-> {}]
    ELSE IF parseFloat(lat) < -90 \/ parseFloat(lat) > 90
    THEN [code |-> 400, rows |-> {}]
    ELSE IF parseFloat(lng) < -180 \/ parseFloat(lng) > 180
    THEN [code |-> 400, rows |-> {}]
    ELSE IF parseFloat(radius) <= 0
    THEN [code |-> 400, rows |-> {}]
    ELSE [code |-> 200,
          rows |-> {NearbyRow(pair[1], pair[2]) :
                       pair \in NearbyJoin(parseFloat(lat), parseFloat(lng),
                                           parseFloat(radius))}]

\* router.get('/:userId') of the status routes; a user without a row defaults
\* to offline, otherwise isOnline = new Date() - new Date(last_seen) <= 3 * 60 * 1000
GetStatus(userId) ==
    IF ~isValidUUID(userId)
    THEN [code |-> 400, isBroadcasting |-> "false", isOnline |-> FALSE]
    ELSE IF {u \in users : u.id = userId} = {}
    THEN [code |-> 404, isBroadcasting |-> "false", isOnline |-> FALSE]
    ELSE IF {s \in user_status : s.user_id = userId} = {}
    THEN [code |-> 200, isBroadcasting |-> "false", isOnline |-> FALSE]
    ELSE LET statusData == CHOOSE s \in user_status : s.user_id = userId
         IN  [code |-> 200, isBroadcasting |-> statusData.is_broadcasting,
              isOnline |-> now - statusData.last_seen <= OnlineMinutes]

----------------------------------------------------------------------------
(* One client that reports locations of the second user, sets the flags    *)
(* and sends heartbeats while the minutes pass; the first user is located. *)

OnlineUserInputs == {U1, U2}
OnlineLatInputs == {10, 11}
OnlineFlagInputs == {"true", "false"}

\* the minutes at which the model looks at the store
OnlineInstants == {0, 3, 4}

InitOnline ==
    /\ users = InitUsers
    /\ profile_items = {GoItem}
    /\ mood_badges = {}
    /\ connections = {}
    /\ validation_requests = {}
    /\ validation_records = {}
    /\ locations = {HomeLocation}
    /\ user_status = {}
    /\ pings = {}
    /\ now = 0
    /\ clients = [p \in Procs |-> IF p = CHOOSE q \in Procs : TRUE
                                  THEN {"location", "broadcasting", "heartbeat"}
                                  ELSE {}]
    /\ pc = [p \in Procs |-> "idle"]
    /\ call = [p \in Procs |-> NoCall]
    /\ request = [p \in Procs |-> {}]
    /\ tx = [p \in Procs |-> NoTx]
    /\ out = Silent
    /\ approvals = [i \in ReqIds |-> 0]

NextOnline ==
    \/ \E p \in Procs, lat \in OnlineLatInputs : LocationUser(p, U2, lat, 30)
    \/ \E p \in Procs : LocationUpsert(p)
    \/ \E p \in Procs, u \in OnlineUserInputs, b \in OnlineFlagInputs :
          BroadcastingUser(p, u, b)
    \/ \E p \in Procs : BroadcastingUpsert(p)
    \/ \E p \in Procs, u \in OnlineUserInputs : HeartbeatUser(p, u)
    \/ \E p \in Procs : HeartbeatUpsert(p)
    \/ \E p \in Procs : StoreFailure(p)
    \/ TickTo(OnlineInstants)

SpecOnline == InitOnline /\ [][NextOnline]_vars

----------------------------------------------------------------------------
(* One client of two connected users that requests and responds while the  *)
(* days pass the expiry of the first request.                              *)

\* the days at which the model looks at the store
ExpiryInstants == {0, 6, 7, 8}

InitExpiry ==
    /\ users = InitUsers
    /\ profile_items = {GoItem}
    /\ mood_badges = {}
    /\ connections = {NewConnection(U1, U2)}
    /\ validation_requests = {}
    /\ validation_records = {}
    /\ locations = {}
    /\ user_status = {}
    /\ pings = {}
    /\ now = 0
    /\ clients = [p \in Procs |-> IF p = "p1" THEN {"request", "respond"} ELSE {}]
    /\ pc = [p \in Procs |-> "idle"]
    /\ call = [p \in Procs |-> NoCall]
    /\ request = [p \in Procs |-> {}]
    /\ tx = [p \in Procs |-> NoTx]
    /\ out = Silent
    /\ approvals = [i \in ReqIds |-> 0]

NextExpiry ==
    \/ \E p \in Procs, f \in {U1, U2}, t \in {U1, U2}, s \in {goText, RustText} :
          RequestUsers(p, f, t, "skills", s)
    \/ \E p \in Procs : RequestConnection(p)
    \/ \E p \in Procs : RequestItem(p)
    \/ \E p \in Procs : RequestExisting(p)
    \/ \E p \in Procs : RequestValidation(p)
    \/ \E p \in Procs : RequestInsert(p)
    \/ \E p \in Procs : RequestCommit(p)
    \/ \E p \in Procs, id \in ReqIds, r \in ResponseInputs : RespondSelect(p, id, r)
    \/ \E p \in Procs : RespondUpdate(p)
    \/ \E p \in Procs : RespondInsert(p)
    \/ \E p \in Procs : RespondCommit(p)
    \/ TickTo(ExpiryInstants)

SpecExpiry == InitExpiry /\ [][NextExpiry]_vars

----------------------------------------------------------------------------
(* The pooled client of a handler of the validation and profile routes.    *)

\* the answers sent before const client = await pool.connect()
BeforeConnect == {"req_validate", "rsp_validate", "crt_validate", "upd_validate"}

\* the answers sent after await client.query('COMMIT')
AfterCommit == {"req_commit", "rsp_commit", "crt_commit", "upd_fetch"}

\* what the handler that sent the answer resp called on the pool and on its
\* client, statements other than BEGIN, COMMIT and ROLLBACK left out: every
\* return inside the transaction is preceded by ROLLBACK, the catch block
\* sends ROLLBACK whatever was sent before, and the finally block releases
ClientCalls(resp) ==
    IF resp.at \in BeforeConnect THEN <<>>
    ELSE <<"connect", "BEGIN">>
         \o (IF resp.at \in AfterCommit /\ (resp.code # 500 \/ resp.at = "upd_fetch")
             THEN <<"COMMIT">> ELSE <<>>)
         \o (IF resp.at \notin AfterCommit \/ resp.code = 500
             THEN <<"ROLLBACK">> ELSE <<>>)
         \o <<"release">>

----------------------------------------------------------------------------
(* Shorthands of the claims. *)

\* the last step answered a request of route op
Answered(op) == out.proc # "" /\ out.call.op = op

\* the committed rows that carry the four columns of the call c
RowsOf(c) ==
    {r \in validation_requests :
        /\ r.from_user_id = c.from
        /\ r.to_user_id = c.to
        /\ r.category = c.category
        /\ r.specific_item = c.item}

\* the committed records that credit the request row r
RecordsOf(r) ==
    {v \in validation_records :
        /\ v.validated_user_id = r.to_user_id
        /\ v.validator_user_id = r.from_user_id
        /\ v.category = r.category
        /\ v.specific_item = r.specific_item}

\* a row with status connected joins a and b, in either direction
Connected(a, b) ==
    \E c \in connections :
        /\ c.status = "connected"
        /\ \/ c.from_user = a /\ c.to_user = b
           \/ c.from_user = b /\ c.to_user = a

UserExists(id) == \E u \in users : u.id = id

\* the sum of the values of the function f
RECURSIVE SumOf(_)
SumOf(f) ==
    IF DOMAIN f = {} THEN 0
    ELSE LET k == CHOOSE x \in DOMAIN f : TRUE
         IN  f[k] + SumOf([x \in DOMAIN f \ {k} |-> f[x]])

\* how many approve calls of requests addressed to userId were answered 200
Approvals(userId) ==
    SumOf([i \in {r.id : r \in {x \in validation_requests : x.to_user_id = userId}} |->
              approvals[i]])

\* the committed tables a transaction of the four handlers writes
Stored ==
    <<users, profile_items, mood_badges, validation_requests, validation_records>>

\* handler p has run the COMMIT of its call and has yet to answer
Committed(p) == pc[p] = "upd_fetch"

\* the last step answered a call of one of the four handlers with an error
ErrorOutcome ==
    /\ out.proc # ""
    /\ out.call.op \in {"create", "update", "request", "respond"}
    /\ out.resp.code >= 400

----------------------------------------------------------------------------
(* C1: once the committed status of a ValidationRequest is approved or
   declined, no step of any handler changes it. *)
C1_TerminalStatusImmutable ==
    [][\A r \in validation_requests :
          r.status \in {"approved", "declined"}
              => \E n \in validation_requests' : n.id = r.id /\ n.status = r.status]_vars

(* C2: in every committed state a ValidationRecord that points at request r
   exists if and only if r is approved, and it carries r's to_user, from_user,
   category and specific_item. *)
C2_RecordIffApproved ==
    /\ \A r \in validation_requests :
          (\E v \in validation_records : v.validation_request_id = r.id)
              <=> r.status = "approved"
    /\ \A v \in validation_records :
          \E r \in validation_requests :
              /\ r.id = v.validation_request_id
              /\ v.validated_user_id = r.to_user_id
              /\ v.validator_user_id = r.from_user_id
              /\ v.category = r.category
              /\ v.specific_item = r.specific_item

(* C3: however many approve calls are made on a request, one after the other
   or at once, at most one of them is answered 200, and at most one
   ValidationRecord exists for the request's four columns. *)
C3_ApprovedOnce ==
    /\ \A id \in ReqIds : approvals[id] <= 1
    /\ \A r \in validation_requests : Cardinality(RecordsOf(r)) <= 1

\* a second approve call on a request was refused after the first one got
\* its 200 and its record
C3_Witness ==
    /\ Answered("respond")
    /\ out.call.response = "approved"
    /\ out.resp.code = 500
    /\ approvals[out.call.requestId] = 1
    /\ \E r \in validation_requests :
          r.id = out.call.requestId /\ Cardinality(RecordsOf(r)) = 1

(* C4: with the users connected and the item on the profile, a
   RequestValidation whose four arguments match a request still pending is
   answered 409 Duplicate request and one whose arguments match an approved
   request is answered 409 Already validated; neither adds a row. *)
C4_DuplicateThenAlreadyValidated ==
    [][\A r \in validation_requests :
          (/\ Answered("request")'
           /\ r \in RowsOf(out'.call)
           /\ Connected(r.from_user_id, r.to_user_id)
           /\ itemCheck(r.to_user_id, r.category, r.specific_item) # {})
              => /\ validation_requests' = validation_requests
                 /\ out'.resp.code = 409
                 /\ r.status = "pending" => out'.resp.msg = "Duplicate request"
                 /\ r.status = "approved" => out'.resp.msg = "Already validated"]_vars

\* a request identical to an approved one was answered Already validated
C4_Witness ==
    /\ Answered("request")
    /\ out.resp.msg = "Already validated"
    /\ \E r \in RowsOf(out.call) : r.status = "approved"

(* C5: a RequestValidation with well-formed, distinct ids of two existing
   users and a valid category is answered 403 Users not connected whenever no
   row with status connected joins the two users in either direction, and no
   ValidationRequest exists between users that are not connected. *)
C5_NotConnected ==
    /\ (/\ Answered("request")
        /\ isValidUUID(out.call.from) /\ isValidUUID(out.call.to)
        /\ out.call.from # out.call.to
        /\ UserExists(out.call.from) /\ UserExists(out.call.to)
        /\ out.call.category \in validCategories
        /\ out.call.item # <<>>
        /\ ~Connected(out.call.from, out.call.to))
           => out.resp.code = 403 /\ out.resp.msg = "Users not connected"
    /\ \A r \in validation_requests \cup AllTxReqs :
          Connected(r.from_user_id, r.to_user_id)

\* a request for an item that is on the profile was refused for want of a
\* connection
C5_Witness ==
    /\ Answered("request")
    /\ out.resp.code = 403
    /\ itemCheck(out.call.to, out.call.category, out.call.item) # {}
    /\ ~Connected(out.call.from, out.call.to)

(* C6: a RespondToValidation that loads a request whose status is not pending
   is answered 410 Request no longer pending, one that loads a pending
   request whose expires_at is in the past is answered 410 Request expired,
   and both leave validation_requests and validation_records unchanged. *)
C6_NotPendingOrExpired ==
    [][\A p \in Procs, id \in ReqIds, r \in validation_requests :
          (/\ pc[p] = "idle"
           /\ r.id = id
           /\ \/ call'[p] \in {RespondCall(id, "approved"), RespondCall(id, "declined")}
              \/ /\ out'.proc = p
                 /\ out'.call \in {RespondCall(id, "approved"), RespondCall(id, "declined")})
              => /\ r.status # "pending"
                    => /\ out'.proc = p
                       /\ out'.resp.code = 410
                       /\ out'.resp.msg = "Request no longer pending"
                       /\ validation_requests' = validation_requests
                       /\ validation_records' = validation_records
                 /\ (r.status = "pending" /\ now > r.expires_at)
                    => /\ out'.proc = p
                       /\ out'.resp.code = 410
                       /\ out'.resp.msg = "Request expired"
                       /\ validation_requests' = validation_requests
                       /\ validation_records' = validation_records]_vars

\* a response to a pending request past its expiry was refused
C6_Witness ==
    /\ Answered("respond")
    /\ out.resp.msg = "Request expired"
    /\ \E r \in validation_requests :
          r.id = out.call.requestId /\ r.status = "pending" /\ now > r.expires_at

(* C7: when two RequestValidation calls with the same four arguments both
   pass the read-side checks, one row is committed: the INSERT of the other
   is answered 409 Duplicate request, and no two committed rows share the four
   columns. *)
C7_ConcurrentDuplicate ==
    /\ \A a, b \in validation_requests : SameRequestKey(a, b) => a = b
    /\ (Answered("request") /\ out.resp.at = "req_insert")
          => /\ out.resp.code = 409
             /\ out.resp.msg = "Duplicate request"
             /\ Cardinality(RowsOf(out.call)) = 1

\* the INSERT of a request that had passed the checks collided
C7_Witness ==
    /\ Answered("request")
    /\ out.resp.at = "req_insert"
    /\ out.resp.pgcode = "23505"
    /\ Cardinality(RowsOf(out.call)) = 1

(* C8: a unique-constraint violation raised by the store is always answered
   with a 409, never with a 500. *)
C8_UniqueViolationIsConflict ==
    out.resp.pgcode = "23505" => out.resp.code = 409

(* C9: a call of CreateProfile, UpdateProfile, RequestValidation or
   RespondToValidation that is answered with an error (status 400 or above)
   has written nothing to the committed tables users, profile_items,
   mood_badges, validation_requests and validation_records: the step that
   answers changes none of them and the call has not committed before it;
   and a step that does change them either answers with a success or is the
   COMMIT of a call still to be answered. *)
C9_NoPartialWrites ==
    [][/\ ErrorOutcome' => (Stored' = Stored /\ ~Committed(out'.proc))
       /\ Stored' # Stored =>
              \/ out'.proc # "" /\ out'.resp.code < 400
              \/ \E p \in Procs : ~Committed(p) /\ Committed(p)']_vars

(* C10: a Connect(a, b) made when the row (a, b) exists is answered
   Already connected with status ok, leaves exactly one (a, b) row, and
   ListConnections(a) then contains b exactly once. *)
C10_ConnectIdempotent ==
    [][\A a \in UUIDs, b \in UUIDs :
          (/\ Answered("connect")'
           /\ out'.call = ConnectCall(a, b)
           /\ NewConnection(a, b) \in connections)
              => /\ out'.resp.code = 200
                 /\ out'.resp.msg = "Already connected"
                 /\ Cardinality({c \in connections' :
                        c.from_user = a /\ c.to_user = b}) = 1
                 /\ Occurrences(ListConnections(a)', b) = 1]_vars

(* C11: in every state ListConnections(u) of a user u is a set: each id
   that a connection joins to u, in either direction, occurs in it exactly
   once, and no other id occurs. *)
C11_ListIsSet ==
    \A u \in UUIDs, peer \in UUIDs :
        UserExists(u) =>
            Occurrences(ListConnections(u), peer) =
                (IF \E c \in connections :
                        \/ c.from_user = u /\ c.to_user = peer
                        \/ c.from_user = peer /\ c.to_user = u
                 THEN 1 ELSE 0)

(* C12: in every state ListValidatable(userId) holds exactly one entry for
   each peer that a connection with status connected joins to userId, in
   either direction, and the validationCount of the entry is the number of
   validation_records rows whose validated_user_id is that peer. *)
C12_ValidatableCounts ==
    \A userId \in UUIDs :
        ListValidatable(userId) =
            {[userId |-> peer,
              validationCount |->
                  Cardinality({v \in validation_records : v.validated_user_id = peer})] :
                peer \in {x \in UUIDs : x # userId /\ UserExists(x) /\ Connected(userId, x)}}

(* C13: in every state, for every user, Summarize returns as
   totalValidations the number N of approvals of requests addressed to the
   user that were answered 200, and a categoryBreakdown whose keys are
   exactly skills, education and experience and whose values sum to N. *)
C13_SummaryCounts ==
    \A userId \in UUIDs :
        UserExists(userId) =>
            /\ Summarize(userId).totalValidations = Approvals(userId)
            /\ DOMAIN Summarize(userId).categoryBreakdown =
                   {"skills", "education", "experience"}
            /\ SumOf(Summarize(userId).categoryBreakdown) = Approvals(userId)

\* two approvals in two categories, and a category without any
C13_Witness ==
    /\ Approvals(U2) = 2
    /\ Summarize(U2).categoryBreakdown =
           [c \in validCategories |-> IF c = "experience" THEN 0 ELSE 1]

(* C14: in every state ListPending(userId) holds, each once, exactly the
   validation_requests rows with to_user_id = userId, status pending and
   expires_at later than the clock, the most recently created first; a
   request that is approved, declined or past its expiry is not in it. *)
C14_PendingList ==
    \A userId \in UUIDs :
        UserExists(userId) =>
            LET list == ListPending(userId)
            IN  /\ {list[i] : i \in 1..Len(list)} =
                       {r \in validation_requests :
                           /\ r.to_user_id = userId
                           /\ r.status = "pending"
                           /\ r.expires_at > now}
                /\ \A i, j \in 1..Len(list) :
                       /\ i # j => list[i] # list[j]
                       /\ i < j => list[i].created_at >= list[j].created_at
                /\ \A i \in 1..Len(list) :
                       /\ list[i].status \notin {"approved", "declined"}
                       /\ now < list[i].expires_at

\* two pending requests of different days are listed, the later one first
C14_Witness ==
    /\ Len(ListPending(U2)) = 2
    /\ ListPending(U2)[1].created_at > ListPending(U2)[2].created_at

\* the preconditions of RequestValidation, for the call c
InvalidRequest(c) ==
    ~isValidUUID(c.from) \/ ~isValidUUID(c.to) \/ c.from = c.to

UserNotFound(c) == ~UserExists(c.from) \/ ~UserExists(c.to)

InvalidCategory(c) == c.category \notin {"skills", "education", "experience"}

\* the response resp reports the first precondition that fails after the
\* ids, the users and the category are found in order: NotConnected, then
\* ItemNotFound, then DuplicateRequest, then AlreadyValidated
ReportsLater(c, resp) ==
    IF ~Connected(c.from, c.to)
    THEN resp.code = 403 /\ resp.msg = "Users not connected"
    ELSE IF itemCheck(c.to, c.category, c.item) = {}
    THEN resp.code = 422 /\ resp.msg = "Item not found"
    ELSE IF \E r \in RowsOf(c) : r.status = "pending"
    THEN resp.code = 409 /\ resp.msg = "Duplicate request"
    ELSE IF \E v \in validation_records :
                /\ v.validator_user_id = c.from /\ v.validated_user_id = c.to
                /\ v.category = c.category /\ v.specific_item = c.item
    THEN resp.code = 409 /\ resp.msg = "Already validated"
    ELSE TRUE

\* the last step answered a RequestValidation that carried its four fields
AnsweredRequest ==
    /\ Answered("request")
    /\ out.call.from # Missing /\ out.call.to # Missing
    /\ out.call.category # Missing /\ out.call.item # <<>>

(* C15 as stated: a RequestValidation of one client is answered with the
   first precondition that fails in the order InvalidRequest, UserNotFound,
   InvalidCategory, NotConnected, ItemNotFound, DuplicateRequest,
   AlreadyValidated. *)
C15_StatedOrder ==
    [][AnsweredRequest' =>
          IF InvalidRequest(out'.call)
          THEN out'.resp.code = 400
               /\ out'.resp.msg \in {"Invalid user ID format", "Invalid request"}
          ELSE IF UserNotFound(out'.call)
          THEN out'.resp.code = 404 /\ out'.resp.msg = "User not found"
          ELSE IF InvalidCategory(out'.call)
          THEN out'.resp.code = 400 /\ out'.resp.msg = "Invalid category"
          ELSE ReportsLater(out'.call, out'.resp)]_vars

(* C15 amended: a RequestValidation of one client is answered with the
   first precondition that fails in the order InvalidRequest,
   InvalidCategory, UserNotFound, NotConnected, ItemNotFound,
   DuplicateRequest, AlreadyValidated: the category is checked before the
   users are looked up. *)
C15_PreconditionOrder ==
    [][AnsweredRequest' =>
          IF InvalidRequest(out'.call)
          THEN out'.resp.code = 400
               /\ out'.resp.msg \in {"Invalid user ID format", "Invalid request"}
          ELSE IF InvalidCategory(out'.call)
          THEN out'.resp.code = 400 /\ out'.resp.msg = "Invalid category"
          ELSE IF UserNotFound(out'.call)
          THEN out'.resp.code = 404 /\ out'.resp.msg = "User not found"
          ELSE ReportsLater(out'.call, out'.resp)]_vars

\* a request that names a user that does not exist and a category that is
\* none of the three was answered Invalid category
C15_Witness ==
    /\ AnsweredRequest
    /\ ~InvalidRequest(out.call)
    /\ UserNotFound(out.call)
    /\ InvalidCategory(out.call)
    /\ out.resp.msg = "Invalid category"

(* C16: validation_records is an append-only ledger: no step of
   RequestValidation, RespondToValidation, Connect, CreateProfile or
   UpdateProfile, and no failure of the store, removes or changes a row
   that is committed: every committed row is still there, field for field,
   after the step. *)
C16_AppendOnly ==
    [][validation_records \subseteq validation_records']_vars

\* an UpdateProfile of the endorsed user has been answered 200 and the
\* record of the endorsement is in the table as it was
C16_Witness ==
    /\ Answered("update")
    /\ out.resp.code = 200
    /\ out.call.userId = U2
    /\ GoRecord \in validation_records

\* no committed row of connections, validation_requests or
\* validation_records names the same user on both sides
NoSelfRows ==
    /\ \A c \in connections : c.from_user # c.to_user
    /\ \A r \in validation_requests : r.from_user_id # r.to_user_id
    /\ \A v \in validation_records : v.validated_user_id # v.validator_user_id

\* the last step answered a Connect or a RequestValidation whose two ids
\* are the same
SelfCall ==
    /\ out.proc # ""
    /\ out.call.op \in {"connect", "request"}
    /\ out.call.from = out.call.to

(* C17: in every reachable state no connection joins a user to itself, no
   validation request is from a user to itself and no validation record
   has the validated user as its validator; and a Connect(a, a) or a
   RequestValidation(a, a, ...) is answered with status 400 by a step that
   leaves every table as it was. *)
C17_NoSelfReference ==
    /\ []NoSelfRows
    /\ [][SelfCall' => out'.resp.code = 400 /\ db' = db]_vars

\* Connect(u1, u1) of a user that exists has been answered Invalid
\* connection while the store holds a connection and a record
C17_Witness ==
    /\ SelfCall
    /\ out.call.op = "connect"
    /\ UserExists(out.call.from)
    /\ out.resp.msg = "Invalid connection"
    /\ connections # {}
    /\ validation_records # {}

\* the rows of locations and of user_status that belong to userId
LocationsOf(userId) == {l \in locations : l.user_id = userId}
StatusOf(userId) == {s \in user_status : s.user_id = userId}

\* the last step answered an UpsertLocation with success
LocationSaved == Answered("location") /\ out.resp.code = 200

(* C18: under any interleaving of UpsertLocation, SetBroadcasting and
   Heartbeat calls every user has at most one locations row and at most one
   user_status row, and the locations row of a user holds the coordinates
   of the UpsertLocation for that user that committed last: the step that
   commits an upsert leaves exactly one row of the user, with the latitude
   and longitude of the call, and no other step changes the table. *)
C18_OneRowPerUser ==
    /\ [](\A u \in UUIDs : /\ Cardinality(LocationsOf(u)) <= 1
                           /\ Cardinality(StatusOf(u)) <= 1)
    /\ [][/\ locations' # locations => LocationSaved'
          /\ LocationSaved' =>
                /\ \E l \in locations' :
                      /\ {x \in locations' : x.user_id = out'.call.userId} = {l}
                      /\ l.latitude = out'.call.lat
                      /\ l.longitude = out'.call.lng
                /\ \A u \in UUIDs \ {out'.call.userId} :
                      LocationsOf(u)' = LocationsOf(u)]_vars

\* an UpsertLocation of the first user has overwritten the row of an earlier
\* one while another UpsertLocation of the same user, with another latitude,
\* is between its two queries, and the user has a status row
C18_Witness ==
    /\ LocationSaved
    /\ out.call.userId = U1
    /\ \E l \in LocationsOf(U1) : l.created_at > 0
    /\ StatusOf(U1) # {}
    /\ \E q \in Procs \ {out.proc} :
          /\ pc[q] = "loc_upsert"
          /\ call[q].userId = U1
          /\ call[q].lat # out.call.lat

\* the last step answered a Heartbeat with success
HeartbeatDone == Answered("heartbeat") /\ out.resp.code = 200

\* the last step answered a SetBroadcasting of userId with success
BroadcastingSet(userId) ==
    /\ Answered("broadcasting")
    /\ out.resp.code = 200
    /\ out.call.userId = userId

(* C19: a Heartbeat of an existing user that succeeds leaves one
   user_status row of the user whose last_seen is the time of the call; the
   row keeps the is_broadcasting value (and the creation time) it had, or,
   if the user had no row, is created with is_broadcasting false; the rows
   of other users and the locations stay as they were.  And a step after
   which the flag of a user differs from the flag the user had before is
   the answer of a SetBroadcasting of that user. *)
C19_HeartbeatKeepsFlag ==
    [][/\ HeartbeatDone' =>
             /\ \E n \in user_status' :
                   /\ {s \in user_status' : s.user_id = out'.call.userId} = {n}
                   /\ n.last_seen = now
                   /\ IF StatusOf(out'.call.userId) = {}
                      THEN n.is_broadcasting = "false"
                      ELSE \A s \in StatusOf(out'.call.userId) :
                              /\ n.is_broadcasting = s.is_broadcasting
                              /\ n.created_at = s.created_at
             /\ \A s \in user_status :
                   s.user_id # out'.call.userId => s \in user_status'
             /\ locations' = locations
       /\ \A s \in user_status, n \in user_status' :
             (n.user_id = s.user_id /\ n.is_broadcasting # s.is_broadcasting)
                => BroadcastingSet(s.user_id)']_vars

\* a Heartbeat of the first user, sent days after the user began to
\* broadcast, has refreshed last_seen and the flag is still set
C19_Witness ==
    /\ HeartbeatDone
    /\ out.call.userId = U1
    /\ now > 0
    /\ \E s \in StatusOf(U1) :
          /\ s.is_broadcasting = "true"
          /\ s.last_seen = now
          /\ s.created_at = 0
    /\ StatusOf(U2) # {}

\* the COMMIT of an UpdateProfile of p that supplied a profile image
CommitsImage(p) ==
    /\ pc[p] = "upd_commit" /\ pc'[p] = "upd_fetch"
    /\ call[p].image.given

(* C20: after any sequence of profile writes, UpdateProfile calls of one
   user that supply a profile image and overlap included, every user has at
   most one profile item of type profile_image, and once an UpdateProfile
   with an image commits that item is the only image of the user and holds
   the image of the call. *)
C20_SingleImage ==
    /\ [](\A u \in UUIDs : Cardinality(ImageItems(u)) <= 1)
    /\ [][\A p \in Procs : CommitsImage(p) =>
             \E r \in profile_items' :
                /\ {x \in profile_items' : /\ x.user_id = call[p].userId
                                           /\ x.item_type = "profile_image"} = {r}
                /\ r.item_data.val = call[p].image.base64]_vars

\* what the rows of a set of profile_items or mood_badges rows hold
ItemContents(rows) == {[item_type |-> r.item_type, item_data |-> r.item_data] : r \in rows}
BadgeContents(rows) == {[mood |-> r.mood, category |-> r.category, value |-> r.value] : r \in rows}

\* the entries of a supplied list, as the handler reads them
SuppliedItems(list) ==
    {[item_type |-> itemType(list[i]), item_data |-> itemData(list[i])] : i \in 1..Len(list)}

\* the COMMIT of an UpdateProfile of p
CommitsUpdate(p) == pc[p] = "upd_commit" /\ pc'[p] = "upd_fetch"

(* C21: the COMMIT of an UpdateProfile whose statements did not overlap
   another call leaves, for the user of the call: the supplied items as the
   only items that are no profile image, if items was supplied, and the
   items as they were otherwise; the supplied badges as the only badges, if
   moodBadges was supplied, and the badges as they were otherwise; the
   profile image as it was unless an image was supplied; the name and the
   email as they were unless supplied; and the rows of every other user as
   they were. *)
C21_PartialUpdate ==
    [][\A p \in Procs : CommitsUpdate(p) =>
          LET c == call[p]
              id == c.userId
              mine(rows) == {r \in rows : r.user_id = id}
              images(rows) == {r \in mine(rows) : r.item_type = "profile_image"}
              others(rows) == mine(rows) \ images(rows)
          IN  /\ IF c.items.given
                 THEN /\ ItemContents(others(profile_items')) = SuppliedItems(c.items.list)
                      /\ Cardinality(others(profile_items')) = Len(c.items.list)
                      /\ others(profile_items') \cap others(profile_items) = {}
                 ELSE others(profile_items') = others(profile_items)
              /\ c.image.given \/ images(profile_items') = images(profile_items)
              /\ IF c.moodBadges.given
                 THEN /\ BadgeContents(mine(mood_badges')) =
                            {c.moodBadges.list[i] : i \in 1..Len(c.moodBadges.list)}
                      /\ Cardinality(mine(mood_badges')) = Len(c.moodBadges.list)
                 ELSE mine(mood_badges') = mine(mood_badges)
              /\ \A u \in users : u.id = id =>
                    \E n \in users' :
                       /\ n.id = id
                       /\ n.name = IF c.name # Missing THEN c.name ELSE u.name
                       /\ n.email = IF c.email # Missing THEN c.email ELSE u.email
              /\ profile_items' \ mine(profile_items') = profile_items \ mine(profile_items)
              /\ mood_badges' \ mine(mood_badges') = mood_badges \ mine(mood_badges)
              /\ {u \in users' : u.id # id} = {u \in users : u.id # id}]_vars

\* an UpdateProfile that supplied two items and nothing else has been
\* answered 200: the two items are the user's items, the image and the badge
\* are the ones the profile had
C21_Witness ==
    /\ Answered("update") /\ out.resp.code = 200
    /\ out.call.userId = U2
    /\ out.call.items.given /\ Len(out.call.items.list) = 2
    /\ ~out.call.image.given /\ ~out.call.moodBadges.given
    /\ ItemContents({r \in profile_items : r.user_id = U2 /\ r.item_type # "profile_image"})
          = SuppliedItems(out.call.items.list)
    /\ GoImage \in profile_items
    /\ GoBadge \in mood_badges

\* the coordinates and requesters GET /pings/nearby is asked with
NearbyLatInputs == {"10", "11"}
NearbyRequesters == {U1, U2, U3}

\* C22: FindNearbyPings(lat, lng, requester) returns only stored pings that the
\* requester did not author, that are at most 15 minutes old and that lie
\* within 1000 meters, and it returns every ping of another author that is
\* less than 15 minutes old and within 1000 meters; so a ping at the query
\* coordinates goes to every other requester and never to its author, one that
\* is 14 minutes old is returned and one that is 16 minutes old is not.
C22_NearbyPings ==
    \A lat \in NearbyLatInputs, userId \in NearbyRequesters :
        LET found == FindNearbyPings(lat, "10", userId)
            near(ping) == earth_distance(ping.latitude, parseFloat(lat)) <= 1000
        IN  /\ found.code = 200
            /\ found.rows \subseteq pings
            /\ \A ping \in found.rows :
                  /\ ping.user_id # userId
                  /\ now - ping.created_at <= 15
                  /\ near(ping)
            /\ \A ping \in pings :
                  /\ ping.user_id # userId /\ now - ping.created_at < 15 /\ near(ping)
                        => ping \in found.rows
                  /\ ping.user_id = userId => ping \notin found.rows
                  /\ now - ping.created_at = 16 => ping \notin found.rows

\* a ping that is 14 minutes old is returned at its own coordinates to another
\* requester and not to its author, next to one that is 16 minutes old
C22_Witness ==
    \E ping \in pings, old \in pings :
        /\ now - ping.created_at = 14
        /\ ping.latitude = 10
        /\ ping \in FindNearbyPings("10", "10", U3).rows
        /\ ping \notin FindNearbyPings("10", "10", ping.user_id).rows
        /\ ping \notin FindNearbyPings("11", "10", U3).rows
        /\ now - old.created_at = 16
        /\ old \notin FindNearbyPings("10", "10", U3).rows

\* the last step answered a CreatePing that names an existing user, a message,
\* a mood and coordinates inside the ranges, and neither category nor value
PingWithoutCategory ==
    /\ Answered("ping")
    /\ \E u \in users : u.id = out.call.userId
    /\ out.call.message # Missing /\ out.call.mood # Missing
    /\ out.call.lat # 0 /\ out.call.lat >= -90 /\ out.call.lat <= 90
    /\ out.call.lng # 0 /\ out.call.lng >= -180 /\ out.call.lng <= 180
    /\ out.call.category = Missing /\ out.call.value = Missing

\* C25: a CreatePing of an existing user with message, mood and coordinates
\* inside the ranges that leaves out category and value succeeds and its Ping
\* row is stored, unless the store failed the statement.
C25_OptionalCategory ==
    PingWithoutCategory /\ out.resp.code # 500
        => /\ out.resp.code = 200
           /\ \E ping \in pings : ping.id = out.resp.id /\ ping.user_id = out.call.userId

\* the last step answered an UpsertLocation of an existing user whose
\* coordinates lie inside the ranges
LocationInRange ==
    /\ Answered("location")
    /\ \E u \in users : u.id = out.call.userId
    /\ out.call.lat >= -90 /\ out.call.lat <= 90
    /\ out.call.lng >= -180 /\ out.call.lng <= 180

\* C24: an UpsertLocation of an existing user with a latitude in [-90, 90] and
\* a longitude in [-180, 180], 0 included, is never refused with a 400: it
\* succeeds unless the store failed the statement; a coordinate is refused
\* only outside those ranges.
C24_ZeroCoordinates ==
    LocationInRange /\ out.resp.code # 500 => out.resp.code = 200

\* the query points and radii (in kilometers) GET /locations/nearby is asked with
NearbyRadiusInputs == {"100", "112"}

\* C23: every row of the status-aware FindNearbyLocations belongs to a user
\* that has a Location row at most radius * 1000 meters from (lat, lng) and a
\* UserStatus row with is_broadcasting = true and a last_seen at most 3 minutes
\* old, and no user has two rows; users without a Location row, without a
\* UserStatus row, with the flag off or with a stale heartbeat are not returned.
C23_NearbyLocations ==
    \A lat \in NearbyLatInputs, radius \in NearbyRadiusInputs :
        LET found == FindNearbyLocations(lat, "30", radius)
        IN  /\ found.code = 200
            /\ \A row \in found.rows :
                  /\ \E l \in locations :
                        /\ l.user_id = row.userId
                        /\ earth_distance(l.latitude, parseFloat(lat))
                              <= parseFloat(radius) * 1000
                  /\ \E us \in user_status :
                        /\ us.user_id = row.userId
                        /\ us.is_broadcasting = "true"
                        /\ now - us.last_seen <= 3
                  /\ \A other \in found.rows : other.userId = row.userId => other = row
            /\ \A u \in users :
                  \/ {l \in locations : l.user_id = u.id} = {}
                  \/ {us \in user_status : us.user_id = u.id} = {}
                  \/ \E us \in user_status : us.user_id = u.id /\ us.is_broadcasting = "false"
                  \/ \E us \in user_status : us.user_id = u.id /\ now - us.last_seen > 3
                  => \A row \in found.rows : row.userId # u.id

\* the second user, one degree north of the first, on the air and seen a minute
\* ago, is returned within 112 km of the first user's point and not within
\* 100 km, while the first user there has a heartbeat of 4 minutes ago
C23_Witness ==
    /\ \E row \in FindNearbyLocations("10", "30", "112").rows :
          row.userId = U2 /\ row.latitude = 11 /\ now - row.lastSeen = 1
    /\ FindNearbyLocations("10", "30", "100").rows = {}
    /\ \E l \in locations : l.user_id = U1 /\ l.latitude = 10
    /\ \E us \in user_status :
          us.user_id = U1 /\ us.is_broadcasting = "true" /\ now - us.last_seen = 4

\* C29: a user with a Location inside the radius and is_broadcasting = true is
\* returned by the status-aware FindNearbyLocations exactly when
\* GetStatus(user) reports isOnline = true, at every age of last_seen, the age
\* of exactly 3 minutes included; a user without a UserStatus row is reported
\* offline and is not returned.
C29_SameOnlinePredicate ==
    \A u \in users :
        LET found == FindNearbyLocations("10", "30", "112")
            listed == \E row \in found.rows : row.userId = u.id
            rows == {us \in user_status : us.user_id = u.id}
        IN  /\ rows = {} => ~GetStatus(u.id).isOnline /\ ~listed
            /\ (/\ \E l \in locations :
                      /\ l.user_id = u.id
                      /\ earth_distance(l.latitude, 10) <= 112 * 1000
                /\ \E us \in rows : us.is_broadcasting = "true")
                  => (listed <=> GetStatus(u.id).isOnline)

\* the rows of the tuple of call c that can no longer be answered: declined,
\* or past their expiry
ClosedRows(c) == {r \in RowsOf(c) : r.status = "declined" \/ now > r.expires_at}

\* C26: no two validation_requests rows carry the same (from_user, to_user,
\* category, specific_item), and a RequestValidation answered while a row of
\* its tuple is declined or past its expiry creates no row and is never
\* accepted: when the users are connected, the item exists and the store
\* fails no statement, the answer is 409.
C26_OneRequestPerTuple ==
    /\ [](\A r1 \in validation_requests, r2 \in validation_requests :
             SameRequestKey(r1, r2) => r1 = r2)
    /\ [][Answered("request")' /\ ClosedRows(out'.call) # {}
            => /\ validation_requests' = validation_requests
               /\ out'.resp.code # 201
               /\ out'.resp.code \notin {403, 422, 500} => out'.resp.code = 409]_vars

\* RequestValidation has been refused by unique_validation_request for a tuple
\* whose row is declined, and the row is the only one of its tuple
C26_Witness ==
    /\ Answered("request")
    /\ out.resp.code = 409
    /\ out.resp.pgcode = "23505"
    /\ \E r \in RowsOf(out.call) : r.status = "declined" /\ RowsOf(out.call) = {r}

\* RequestValidation has been refused by the duplicate check for a tuple
\* whose pending row is past its expiry
C26_WitnessExpired ==
    /\ Answered("request")
    /\ out.resp.code = 409
    /\ out.resp.at = "req_existing"
    /\ \E r \in RowsOf(out.call) : r.status = "pending" /\ now > r.expires_at

\* C27: no validation_requests row ever has status = expired, and every change
\* of a row's status goes from pending to approved or from pending to
\* declined (so that expiry never shows in the status column).
C27_StatusTransitions ==
    /\ [](\A r \in validation_requests : r.status # "expired")
    /\ [][\A r \in validation_requests, n \in validation_requests' :
             r.id = n.id /\ r.status # n.status
                => r.status = "pending" /\ n.status \in {"approved", "declined"}]_vars

\* ListPending(r.to_user) holds the request r
Listed(r) ==
    \E i \in 1..Len(ListPending(r.to_user_id)) : ListPending(r.to_user_id)[i].id = r.id

\* C28: at every time, the time of expires_at itself included, a
\* RespondToValidation that finds the request r goes on to its UPDATE exactly
\* when ListPending(r.to_user) lists r at that time, and is refused with 410
\* exactly when it does not.
C28_SameActionable ==
    [][\A p \in Procs, r \in validation_requests :
          pc[p] = "idle"
             => /\ pc'[p] = "rsp_update" /\ call'[p].requestId = r.id => Listed(r)
                /\ (/\ Answered("respond")' /\ out'.proc = p
                    /\ out'.call.requestId = r.id /\ out'.resp.code = 410)
                      => ~Listed(r)]_vars

\* the positions of the sequence calls that hold one of the given calls
Positions(calls, names) == {i \in 1..Len(calls) : calls[i] \in names}

\* C30: a handler of the validation and profile routes that acquired a pooled
\* client released it once, as its last call, and sent exactly one COMMIT or
\* ROLLBACK between its BEGIN and the release.
C30_ReleaseOnce ==
    Answered("request") \/ Answered("respond") \/ Answered("create") \/ Answered("update")
        => LET calls == ClientCalls(out.resp)
           IN  calls # <<>>
                  => /\ Positions(calls, {"connect"}) = {1}
                     /\ Positions(calls, {"release"}) = {Len(calls)}
                     /\ Positions(calls, {"BEGIN"}) = {2}
                     /\ Cardinality(Positions(calls, {"COMMIT", "ROLLBACK"})) = 1

====
